---- MODULE Spec2Model ----
(***************************************************************************)
(* A model of the data-cleaning assistant: the fix generator's             *)
(* generate-validate-retry loop (app/agents/janitor.py), the session state *)
(* and its checkpoint ledger (app/state_manager.py) and the audit page's   *)
(* handlers (app/ui/audit_fast.py, audit_advanced.py, audit_semantic.py,   *)
(* sidebar.py, upload.py, schema.py).                                      *)
(*                                                                         *)
(* Strings are modelled as sequences of pieces (a piece is an atomic chunk *)
(* of characters, "\n" is the piece NL), so that concatenation is \o, the  *)
(* empty string is << >>, and containment is being a contiguous            *)
(* subsequence.                                                            *)
(***************************************************************************)
EXTENDS Integers, Sequences, FiniteSets, TLC

VARIABLES
    \* ---- run_janitor (one call) ----
    jpc,          \* "loop" while the for loop runs, "returned" after a return, "raised" if an exception escaped
    attempt,      \* the loop variable of for attempt in range(max_retries)
    last_error,   \* janitor.py:12
    invocations,  \* number of llm.invoke calls made so far in this call
    sent,         \* the messages list handed to each llm.invoke, in order
    raws,         \* the raw_content of each reply received, in order
    ret           \* the returned string (NoValue until the return)

VARIABLES
    \* ---- st.session_state (state_manager.py:5-31) ----
    df,                \* the current table, or None
    history,           \* the list of checkpoints
    schema_locked,
    app_stage,
    fast_issues,       \* a reference to a list object in lists
    vocab_issues,
    stat_issues,
    deep_issues,
    ignored_issues,    \* a reference to a set object in sets
    fast_count_start,
    deep_count_start,
    cols_normalized,   \* schema.py:15, absent until set
    schema_mode,       \* schema.py:35, "" while absent
    \* ---- the interpreter's objects that are mutated in place ----
    lists,             \* list objects by reference
    sets,              \* set objects by reference
    \* ---- what the last handler did (for the properties) ----
    last

janitorVars == <<jpc, attempt, last_error, invocations, sent, raws, ret>>
sessionVars == <<df, history, schema_locked, app_stage, fast_issues,
                 vocab_issues, stat_issues, deep_issues, ignored_issues,
                 fast_count_start, deep_count_start, cols_normalized,
                 schema_mode, lists, sets, last>>
VARIABLES
    \* ---- one semantic scan (audit_semantic.py:58-110) ----
    scan_pc,       \* "idle", "scanning", "stored", or "aborted" by an exception
    scan_left,     \* the batches not yet analysed
    scan_raw,      \* the local list raw_issues
    scan_out,      \* what the scan stored in deep_issues
    \* ---- one run of the generator get_batches (deep_scanner.py:162-169) ----
    gen_pc,        \* "idle", "running" or "stopped"
    gen_rows,      \* the rows of the table passed to it
    gen_size,      \* the argument batch_size
    current_idx,   \* deep_scanner.py:164
    gen_out,       \* the slices yielded so far
    \* ---- one call of apply_fix (structural_fixer.py:3-98) ----
    fix_call,      \* its arguments and, after the call, its outcome
    \* ---- the module globals of llm_engine.py and the serving backend ----
    current_active_mode,   \* llm_engine.py:13, "" for None
    active_llm_instance,   \* llm_engine.py:14, the model it was built for, "" for None
    resident,              \* the models the backend holds in memory
    requested              \* the modes get_llm was called with, in order

scanVars == <<scan_pc, scan_left, scan_raw, scan_out>>
genVars == <<gen_pc, gen_rows, gen_size, current_idx, gen_out>>
llmVars == <<current_active_mode, active_llm_instance, resident, requested>>
VARIABLES voc_call,     \* one call of scan_vocabulary_issues on one column
          stat_call     \* one call of scan_statistical_issues on one column
colVars == <<voc_call, stat_call>>

vars == <<janitorVars, sessionVars, scanVars, genVars, fix_call, llmVars, colVars>>

\* no scan started
ScanIdle ==
    /\ scan_pc = "idle"
    /\ scan_left = 0
    /\ scan_raw = << >>
    /\ scan_out = << >>

\* no generator created
GenIdle ==
    /\ gen_pc = "idle"
    /\ gen_rows = << >>
    /\ gen_size = 0
    /\ current_idx = 0
    /\ gen_out = << >>

\* apply_fix not called
\* no call of apply_fix is under way
NoCall ==
    [pc |-> "idle", frame |-> [isNone |-> TRUE, dtype |-> "", rows |-> << >>],
     fix_type |-> "", column |-> "", custom_val |-> << >>,
     result |-> [isNone |-> TRUE, dtype |-> "", rows |-> << >>]]

FixIdle == fix_call = NoCall

\* llm_engine.py:13-14, and a backend with no model loaded
LlmIdle ==
    /\ current_active_mode = ""
    /\ active_llm_instance = ""
    /\ resident = {}
    /\ requested = << >>

ColIdle == voc_call = [pc |-> "idle"] /\ stat_call = [pc |-> "idle"]

NoValue == <<"<none>">>
NL == "\n"

(***************************************************************************)
(* Generic helpers on sequences.                                           *)
(***************************************************************************)
Range(s) == {s[i] : i \in 1..Len(s)}

Last(s) == s[Len(s)]

Min(S) == CHOOSE x \in S : \A y \in S : x <= y

\* t occurs in s as a contiguous subsequence (Python's t in s on strings)
Contains(s, t) ==
    \E i \in 0..(Len(s) - Len(t)) : SubSeq(s, i + 1, i + Len(t)) = t

\* str(n) for the small numbers the program formats
Str(n) == CASE n = 0 -> "0" [] n = 1 -> "1" [] n = 2 -> "2" [] n = 3 -> "3"
            [] n = 4 -> "4" [] n = 5 -> "5" [] n = 6 -> "6" [] n = 7 -> "7"
            [] n = 8 -> "8" [] n = 9 -> "9" [] OTHER -> "many"

(***************************************************************************)
(* The vocabulary of model replies: fence markers and one-line statements. *)
(***************************************************************************)
\* "<fence>" stands for the three backquotes of a markdown code fence
FencePy == "<fence>python"
Fence   == "<fence>"

FnDropFirst == "def clean_data(df): return df.slice(1)"
FnDropNulls == "def clean_data(df): return df.drop_nulls()"
FnNoReturn  == "def clean_data(df): df = df.drop_nulls()"
FnBadColumn == "def clean_data(df): return df.select(pl.col('no_such_column'))"
StmtRaise    == "raise ValueError('unsupported dtype')"
StmtRaiseBare   == "raise NotImplementedError()"
StmtOther    == "def clean(df): return df"
StmtPython   == "python"
Prose        == "Here is the cleaned function:"

FnStatements == {FnDropFirst, FnDropNulls, FnNoReturn, FnBadColumn}
Statements == FnStatements \cup {StmtRaise, StmtRaiseBare, StmtOther, StmtPython}

(***************************************************************************)
(* Code extraction (janitor.py:60-67).                                     *)
(***************************************************************************)
\* str.strip(): leading and trailing whitespace (here: NL pieces) removed
Strip(s) ==
    LET keep == {i \in 1..Len(s) : s[i] # NL}
    IN IF keep = {} THEN << >>
       ELSE SubSeq(s, Min(keep), CHOOSE m \in keep : \A k \in keep : k <= m)

\* raw_content.replace(<fence>, ""): a bare fence disappears, and the fence that
\* opens a python block leaves its language tag behind
RECURSIVE RemoveFences(_)
RemoveFences(raw) ==
    IF raw = << >> THEN << >>
    ELSE IF Head(raw) = Fence THEN RemoveFences(Tail(raw))
    ELSE IF Head(raw) = FencePy THEN <<StmtPython>> \o RemoveFences(Tail(raw))
    ELSE <<Head(raw)>> \o RemoveFences(Tail(raw))

\* extraction that takes the first fenced block whatever its language tag
ExtractCodeOfAnyBlock(raw) ==
    LET marks == {i \in 1..Len(raw) : raw[i] \in {Fence, FencePy}}
        closes == marks \ {Min(marks)}
    IN IF marks # {} /\ closes # {}
       THEN Strip(SubSeq(raw, Min(marks) + 1, Min(closes) - 1))
       ELSE Strip(RemoveFences(raw))

\* re.search(r"<fence>python(.*?)<fence>", raw_content, re.DOTALL): the
\* leftmost "<fence>python" that is followed by some "<fence>" (a closing
\* fence, or the start of another "<fence>python"), up to the nearest one
ExtractCode(raw) ==
    LET opens == {i \in 1..Len(raw) : raw[i] = FencePy}
        closes(i) == {j \in (i + 1)..Len(raw) : raw[j] \in {Fence, FencePy}}
    IN IF opens # {} /\ closes(Min(opens)) # {}
       THEN Strip(SubSeq(raw, Min(opens) + 1, Min(closes(Min(opens))) - 1))
       ELSE Strip(RemoveFences(raw))

(***************************************************************************)
(* exec(code, globals(), local_env): the text is compiled as a whole       *)
(* (a line that is no statement is a SyntaxError before anything runs),    *)
(* then its statements run in order and bind names in local_env.           *)
(***************************************************************************)
CommentStarts == {"# Error: LLM connection failed. ",
                  "# Error: Failed to generate valid code after ",
                  "# Last Error: "}

RECURSIVE SplitLines(_)
SplitLines(text) ==
    LET nls == {i \in 1..Len(text) : text[i] = NL}
    IN IF nls = {} THEN <<text>>
       ELSE <<SubSeq(text, 1, Min(nls) - 1)>>
            \o SplitLines(SubSeq(text, Min(nls) + 1, Len(text)))

IsBlankOrComment(line) == line = << >> \/ Head(line) \in CommentStarts

IsStatement(line) == Len(line) = 1 /\ line[1] \in Statements

SeedEnv == [n \in {"pl"} |-> "polars"]

\* the statements of lines from position i on, run in environment env
RECURSIVE RunLines(_, _, _)
RunLines(lines, i, env) ==
    IF i > Len(lines) THEN [raised |-> FALSE, err |-> << >>, env |-> env]
    ELSE IF IsBlankOrComment(lines[i]) THEN RunLines(lines, i + 1, env)
    ELSE LET stmt == lines[i][1]
         IN CASE stmt \in FnStatements ->
                   RunLines(lines, i + 1, ("clean_data" :> stmt) @@ env)
              [] stmt = StmtOther ->
                   RunLines(lines, i + 1, ("clean" :> stmt) @@ env)
              [] stmt = StmtRaise ->
                   [raised |-> TRUE, err |-> <<"unsupported dtype">>, env |-> env]
              [] stmt = StmtRaiseBare ->
                   [raised |-> TRUE, err |-> << >>, env |-> env]
              [] stmt = StmtPython ->
                   [raised |-> TRUE, err |-> <<"name 'python' is not defined">>, env |-> env]

Exec(code, env) ==
    LET lines == SplitLines(code)
        bad == {i \in 1..Len(lines) :
                   ~IsBlankOrComment(lines[i]) /\ ~IsStatement(lines[i])}
    IN IF bad # {}
       THEN [raised |-> TRUE,
             err |-> <<"invalid syntax (<string>, line ", Str(Min(bad)), ")">>,
             env |-> env]
       ELSE RunLines(lines, 1, env)

(***************************************************************************)
(* run_janitor (janitor.py:6-85).                                          *)
(***************************************************************************)
max_retries == 3

MaxRetriesText == Str(max_retries)

\* janitor.py:45-51: the conversation of one attempt
BuildMessages(err) ==
    LET messages == <<[role |-> "system", content |-> <<"SYSTEM_INSTRUCTION">>],
                      [role |-> "human", content |-> <<"USER_CONTEXT">>]>>
    IN IF err # << >>
       THEN Append(messages,
                   [role |-> "human",
                    content |-> <<"PREVIOUS CODE FAILED WITH ERROR: ">> \o err
                                \o <<NL, "FIX THE SYNTAX AND RE-GENERATE.">>])
       ELSE messages

\* janitor.py:58
ConnectionSentinel(e) == <<"# Error: LLM connection failed. ">> \o e

\* janitor.py:85
ExhaustedSentinel(err) ==
    <<"# Error: Failed to generate valid code after ", MaxRetriesText,
      " attempts.", NL, "# Last Error: ">> \o err

\* the strings run_janitor returns in place of code (janitor.py:58, 85)
IsFailureSentinel(s) ==
    /\ s # << >>
    /\ Head(s) \in {"# Error: LLM connection failed. ",
                    "# Error: Failed to generate valid code after "}

\* Validate without the entry-point check of janitor.py:75-76
ValidateWithoutEntryPointCheck(code) ==
    LET r == Exec(code, SeedEnv)
    IN IF r.raised THEN [ok |-> FALSE, err |-> r.err]
       ELSE [ok |-> TRUE, err |-> << >>]

\* janitor.py:70-83: the try block and its except clause; ok means line 79
\* was reached, otherwise err is str(e)
Validate(code) ==
    LET r == Exec(code, SeedEnv)
    IN IF r.raised THEN [ok |-> FALSE, err |-> r.err]
       ELSE IF "clean_data" \notin DOMAIN r.env
       THEN [ok |-> FALSE,
             err |-> <<"Function clean_data was not found in generated code.">>]
       ELSE [ok |-> TRUE, err |-> << >>]

\* the loop bound taken one too far
LoopContinuesOneMore(n) == n <= max_retries

\* janitor.py:44: for attempt in range(max_retries)
LoopContinues(n) == n < max_retries

JanitorStart ==
    [pc |-> "loop", attempt |-> 0, last_error |-> << >>, invocations |-> 0,
     sent |-> << >>, raws |-> << >>, ret |-> NoValue]

\* an invocation failure handled like a validation failure (retried)
InvokeFailedRetried(st, e) ==
    [st EXCEPT !.last_error = e, !.attempt = @ + 1]

\* janitor.py:57-58: llm.invoke raised e
InvokeFailed(st, e) ==
    [st EXCEPT !.ret = ConnectionSentinel(e), !.pc = "returned"]

\* janitor.py:45-83: one pass of the loop body, given what llm.invoke does
LoopBody(st, resp) ==
    LET messages == BuildMessages(st.last_error)
        st1 == [st EXCEPT !.invocations = @ + 1, !.sent = Append(@, messages)]
    IN IF resp.kind = "error" THEN InvokeFailed(st1, resp.text)
       ELSE LET raw_content == resp.content
                code == ExtractCode(raw_content)
                v == Validate(code)
                st2 == [st1 EXCEPT !.raws = Append(@, raw_content)]
            IN IF v.ok
               THEN [st2 EXCEPT !.ret = code, !.pc = "returned"]
               ELSE [st2 EXCEPT !.last_error = v.err, !.attempt = @ + 1]

\* janitor.py:85: the loop ran out
LoopExhausted(st) ==
    [st EXCEPT !.ret = ExhaustedSentinel(st.last_error), !.pc = "returned"]

(***************************************************************************)
(* What the serving backend may answer to one llm.invoke.                  *)
(***************************************************************************)
Fenced(body) == <<FencePy, NL>> \o body \o <<NL, Fence>>

Replies ==
    { Fenced(<<FnDropFirst>>),
      Fenced(<<FnDropNulls>>),
      Fenced(<<FnNoReturn>>),
      Fenced(<<FnBadColumn>>),
      <<Prose, NL>> \o Fenced(<<FnDropNulls>>),
      <<Fence, NL, FnDropFirst, NL, Fence>>,
      <<FnDropNulls>>,
      <<FencePy, NL, FnDropFirst>>,
      Fenced(<<StmtRaise>>),
      Fenced(<<FnDropFirst, NL, StmtRaiseBare>>),
      Fenced(<<StmtOther>>),
      <<Prose, NL, Fence, NL, FnDropNulls, NL, Fence>>,
      <<Fence, NL, StmtOther, NL, Fence, NL>> \o Fenced(<<FnDropFirst>>),
      <<Prose>> }

InvokeErrors == {<<"[Errno 111] Connection refused">>}

Responses ==
    [kind : {"reply"}, content : Replies, text : {<< >>}]
    \cup [kind : {"error"}, content : {<< >>}, text : InvokeErrors]

(***************************************************************************)
(* The call as a state machine.                                            *)
(***************************************************************************)
JanitorState ==
    [pc |-> jpc, attempt |-> attempt, last_error |-> last_error,
     invocations |-> invocations, sent |-> sent, raws |-> raws, ret |-> ret]

SetJanitor(st) ==
    /\ jpc' = st.pc
    /\ attempt' = st.attempt
    /\ last_error' = st.last_error
    /\ invocations' = st.invocations
    /\ sent' = st.sent
    /\ raws' = st.raws
    /\ ret' = st.ret

JanitorInit ==
    /\ jpc = JanitorStart.pc
    /\ attempt = JanitorStart.attempt
    /\ last_error = JanitorStart.last_error
    /\ invocations = JanitorStart.invocations
    /\ sent = JanitorStart.sent
    /\ raws = JanitorStart.raws
    /\ ret = JanitorStart.ret

JanitorAttempt ==
    /\ jpc = "loop"
    /\ LoopContinues(attempt)
    /\ \E resp \in Responses : SetJanitor(LoopBody(JanitorState, resp))
    /\ UNCHANGED <<sessionVars, scanVars, genVars, fix_call, llmVars, colVars>>

JanitorGiveUp ==
    /\ jpc = "loop"
    /\ ~LoopContinues(attempt)
    /\ SetJanitor(LoopExhausted(JanitorState))
    /\ UNCHANGED <<sessionVars, scanVars, genVars, fix_call, llmVars, colVars>>

JanitorNext == JanitorAttempt \/ JanitorGiveUp

\* every outcome of one call, over all the backend may answer
RECURSIVE JanitorOutcomes(_)
JanitorOutcomes(st) ==
    IF st.pc = "returned" THEN {st.ret}
    ELSE IF ~LoopContinues(st.attempt) THEN {LoopExhausted(st).ret}
    ELSE UNION {JanitorOutcomes(LoopBody(st, resp)) : resp \in Responses}

\* what run_janitor may return to a caller
run_janitor == JanitorOutcomes(JanitorStart)

(***************************************************************************)
(* The table.  A table is None or a DataFrame; a DataFrame is represented  *)
(* by its numeric column "c": the column's dtype and its cells in row      *)
(* order.  A cell is Null or a number <<n, d>> standing for n/d in lowest  *)
(* terms (d >= 1), so that means and medians are exact.                    *)
(***************************************************************************)
Null == << >>

RECURSIVE Gcd(_, _)
Gcd(a, b) == IF b = 0 THEN a ELSE Gcd(b, a % b)

Abs(n) == IF n < 0 THEN -n ELSE n

QNorm(n, d) == LET g == Gcd(Abs(n), d) IN <<n \div g, d \div g>>

Q(n) == <<n, 1>>

QAdd(a, b) == QNorm(a[1] * b[2] + b[1] * a[2], a[2] * b[2])

QDivInt(a, k) == QNorm(a[1], a[2] * k)

QLess(a, b) == a[1] * b[2] < b[1] * a[2]

QIsNegative(a) == a[1] < 0

QAbs(a) == <<Abs(a[1]), a[2]>>

NoneValue == [isNone |-> TRUE, dtype |-> "", rows |-> << >>]

DataFrame(dtype, rows) == [isNone |-> FALSE, dtype |-> dtype, rows |-> rows]

Height(frame) == Len(frame.rows)

NumericDtypes == {"Int64", "Float64", "Int32", "Float32"}

\* the rows of frame at the positions of keep, in their order
RECURSIVE SelectRows(_, _)
SelectRows(rows, keep) ==
    IF rows = << >> THEN << >>
    ELSE (IF 1 \in keep THEN <<Head(rows)>> ELSE << >>)
         \o SelectRows(Tail(rows), {i - 1 : i \in keep \ {1}})

NonNullIdx(rows) == {i \in 1..Len(rows) : rows[i] # Null}

NullCount(rows) == Cardinality({i \in 1..Len(rows) : rows[i] = Null})

RECURSIVE QSum(_)
QSum(vals) == IF vals = << >> THEN Q(0) ELSE QAdd(Head(vals), QSum(Tail(vals)))

\* Series.mean(): Null when the column has no value
Mean(rows) ==
    LET vals == SelectRows(rows, NonNullIdx(rows))
    IN IF vals = << >> THEN Null ELSE QDivInt(QSum(vals), Len(vals))

\* the non-null values in ascending order
RECURSIVE SortedValues(_)
SortedValues(vals) ==
    IF vals = << >> THEN << >>
    ELSE LET m == CHOOSE i \in 1..Len(vals) :
                     \A j \in 1..Len(vals) : ~QLess(vals[j], vals[i])
         IN <<vals[m]>> \o SortedValues(SelectRows(vals, (1..Len(vals)) \ {m}))

\* Series.median(): the middle value, or the mean of the two middle values
Median(rows) ==
    LET vals == SortedValues(SelectRows(rows, NonNullIdx(rows)))
        n == Len(vals)
    IN IF n = 0 THEN Null
       ELSE IF n % 2 = 1 THEN vals[(n + 1) \div 2]
       ELSE QDivInt(QAdd(vals[n \div 2], vals[n \div 2 + 1]), 2)

\* Series.drop_nulls().mode(): every most frequent value (their order is
\* not specified by the library)
Modes(rows) ==
    LET idx == NonNullIdx(rows)
        freq(v) == Cardinality({i \in idx : rows[i] = v})
    IN {rows[i] : i \in {k \in idx : \A j \in idx : freq(rows[j]) <= freq(rows[k])}}

\* fill_null(strategy="forward"): a null takes the last value before it
ForwardFill(rows) ==
    [i \in 1..Len(rows) |->
        IF rows[i] # Null THEN rows[i]
        ELSE LET before == {j \in 1..i : rows[j] # Null}
             IN IF before = {} THEN Null
                ELSE rows[CHOOSE j \in before : \A k \in before : k <= j]]

\* fill_null(strategy="backward"): a null takes the next value after it
BackwardFill(rows) ==
    [i \in 1..Len(rows) |->
        IF rows[i] # Null THEN rows[i]
        ELSE LET after == {j \in i..Len(rows) : rows[j] # Null}
             IN IF after = {} THEN Null ELSE rows[Min(after)]]

\* every ordering of the elements of a finite set, as sequences
RECURSIVE Orderings(_)
Orderings(S) ==
    IF S = {} THEN {<< >>}
    ELSE UNION {{<<x>> \o rest : rest \in Orderings(S \ {x})} : x \in S}

(***************************************************************************)
(* The structural scanner (app/scanner.py).                                *)
(***************************************************************************)
\* scanner.py:4-78
get_fix_strategies(issue_type, dtype) ==
    LET is_numeric == dtype \in NumericDtypes
        is_string == dtype = "String"
        is_bool == dtype = "Boolean"
        is_date == dtype \in {"Date", "Datetime"}
    IN IF issue_type = "Missing Values"
       THEN IF is_numeric
            THEN <<"Fill with Median", "Fill with Mean", "Fill with Mode",
                   "Fill with 0", "Fill with -1", "Forward Fill", "Drop Rows">>
            ELSE IF is_string
            THEN <<"Fill with 'Unknown'", "Fill with 'Missing'", "Fill with Mode",
                   "Forward Fill", "Drop Rows">>
            ELSE IF is_bool
            THEN <<"Fill with False", "Fill with True", "Fill with Mode",
                   "Forward Fill", "Drop Rows">>
            ELSE IF is_date
            THEN <<"Forward Fill", "Backward Fill", "Drop Rows">>
            ELSE <<"Drop Rows">>
       ELSE IF issue_type = "Duplicate Rows"
       THEN <<"Remove Duplicates", "Keep First", "Keep Last">>
       ELSE IF issue_type = "Negative Values"
       THEN IF is_numeric
            THEN <<"Convert to Absolute", "Replace with 0", "Replace with Mean",
                   "Drop Rows">>
            ELSE << >>
       ELSE << >>

\* DataFrame.is_duplicated().sum(): the rows that occur more than once
DupCount(rows) ==
    Cardinality({i \in 1..Len(rows) :
                    \E j \in 1..Len(rows) : j # i /\ rows[j] = rows[i]})

\* frame.filter(pl.col(col) < 0).height: a null is not less than 0
NegCount(rows) ==
    Cardinality({i \in NonNullIdx(rows) : QIsNegative(rows[i])})

\* scanner.py:80-130
scan_structural_issues(frame) ==
    (IF NullCount(frame.rows) > 0
     THEN <<[type |-> "Missing Values", column |-> "c",
             count |-> NullCount(frame.rows), dtype |-> frame.dtype,
             options |-> get_fix_strategies("Missing Values", frame.dtype)]>>
     ELSE << >>)
    \o
    (IF DupCount(frame.rows) > 0
     THEN <<[type |-> "Duplicate Rows", column |-> "Dataset",
             count |-> DupCount(frame.rows), dtype |-> "N/A",
             options |-> get_fix_strategies("Duplicate Rows", "Object")]>>
     ELSE << >>)
    \o
    (IF frame.dtype \in NumericDtypes /\ NegCount(frame.rows) > 0
     THEN <<[type |-> "Negative Values", column |-> "c",
             count |-> NegCount(frame.rows), dtype |-> frame.dtype,
             options |-> get_fix_strategies("Negative Values", frame.dtype)]>>
     ELSE << >>)

(***************************************************************************)
(* The deterministic fixer (app/structural_fixer.py).  apply_fix is given  *)
(* as the set of its possible outcomes, [raised, frame]: the library       *)
(* leaves the row order of unique() and the order of tied modes            *)
(* unspecified.                                                            *)
(* custom_val is Null (no input), or the number the text input parses to.  *)
(***************************************************************************)
Returned(frame) == [raised |-> FALSE, frame |-> frame]

Raised == [raised |-> TRUE, frame |-> NoneValue]

FillNull(frame, v) ==
    [frame EXCEPT !.rows = [i \in 1..Len(@) |-> IF @[i] = Null THEN v ELSE @[i]]]

\* pl.when(pl.col(column) < 0).then(v).otherwise(pl.col(column))
ReplaceNegatives(frame, v) ==
    [frame EXCEPT !.rows = [i \in 1..Len(@) |->
                            IF @[i] # Null /\ QIsNegative(@[i]) THEN v ELSE @[i]]]

IsWhole(v) == v # Null /\ v[2] = 1

\* DataFrame.unique(): one row for each distinct row, in some order
Unique(frame) ==
    {Returned([frame EXCEPT !.rows = o]) : o \in Orderings(Range(frame.rows))}

\* Float64 holds every whole number up to 2^53 exactly and every second one
\* from there to 2^54; the model scales 2^53 down to LargestExactInt.
LargestExactInt == 8

\* the Float64 nearest to a number (ties to the even mantissa)
ToFloat64(v) ==
    IF v = Null \/ ~IsWhole(v) \/ Abs(v[1]) <= LargestExactInt THEN v
    ELSE LET over == Abs(v[1]) - LargestExactInt
             near == IF over % 2 = 0 THEN over
                     ELSE IF ((over - 1) \div 2) % 2 = 0 THEN over - 1
                     ELSE over + 1
         IN Q((IF v[1] < 0 THEN -1 ELSE 1) * (LargestExactInt + near))

\* the column is cast to the supertype of its dtype and Float64
CastFloat64(frame) ==
    [frame EXCEPT !.dtype = "Float64",
                  !.rows = [i \in 1..Len(@) |-> ToFloat64(@[i])]]

\* the columns of a table
Columns(frame) == {"c"}

\* the text of a strategy name, cut so that "Forward Fill" and "Backward
\* Fill" are parts of the names that hold them
NameParts(fix_type) ==
    CASE fix_type = "Forward Fill (Grouped)" -> <<"Forward Fill", " (Grouped)">>
      [] fix_type = "Rolling Backward Fill" -> <<"Rolling ", "Backward Fill">>
      [] OTHER -> <<fix_type>>

\* the rows a plain filter col >= 0 keeps: a null comparison drops the row
KeepsNonNegativeOnly(cell) == cell # Null /\ ~QIsNegative(cell)

\* (pl.col(column) >= 0) | pl.col(column).is_null()
KeepsRow(cell) == cell = Null \/ ~QIsNegative(cell)

\* the branches of apply_fix that evaluate the column outside a try
ReadsColumn(fix_type) ==
    \/ fix_type \in {"Fill with Custom Value", "Replace Negatives with Custom Value",
                     "Fill with Median", "Fill with Mean", "Fill with 0",
                     "Fill with -1", "Fill with 'Unknown'", "Fill with 'Missing'",
                     "Drop Rows (Nulls)", "Convert to Absolute", "Replace with 0",
                     "Set Negatives to 0", "Replace with Mean",
                     "Drop Rows (Negatives)"}
    \/ Contains(NameParts(fix_type), <<"Forward Fill">>)
    \/ Contains(NameParts(fix_type), <<"Backward Fill">>)

\* structural_fixer.py:3-98
apply_fix(frame, fix_type, column, custom_val) ==
    IF ReadsColumn(fix_type) /\ column \notin Columns(frame)
    THEN {Raised}                                  \* ColumnNotFoundError
    ELSE IF fix_type = "Fill with Custom Value"
    THEN IF custom_val = Null
         \* float("") fails and is passed over; Polars rejects the text as a
         \* fill value for a numeric column
         THEN {Raised}
         ELSE IF IsWhole(custom_val) THEN {Returned(FillNull(frame, custom_val))}
         ELSE {Returned(CastFloat64(FillNull(frame, custom_val)))}
    ELSE IF fix_type = "Replace Negatives with Custom Value"
    THEN IF custom_val = Null THEN {Raised}
         ELSE {Returned(CastFloat64(ReplaceNegatives(frame, custom_val)))}
    ELSE IF fix_type = "Fill with Median"
    THEN {Returned(CastFloat64(FillNull(frame, Median(frame.rows))))}
    ELSE IF fix_type = "Fill with Mean"
    THEN {Returned(CastFloat64(FillNull(frame, Mean(frame.rows))))}
    ELSE IF fix_type = "Fill with Mode"
    THEN IF column \notin Columns(frame) \/ Modes(frame.rows) = {}
         THEN {Returned(frame)}
         ELSE {Returned(FillNull(frame, mode_val)) : mode_val \in Modes(frame.rows)}
    ELSE IF fix_type = "Fill with 0"
    THEN {Returned(FillNull(frame, Q(0)))}
    ELSE IF fix_type = "Fill with -1"
    THEN {Returned(FillNull(frame, Q(-1)))}
    ELSE IF fix_type \in {"Fill with 'Unknown'", "Fill with 'Missing'"}
    THEN {Raised}
    ELSE IF fix_type = "Forward Fill" \/ Contains(NameParts(fix_type), <<"Forward Fill">>)
    THEN {Returned([frame EXCEPT !.rows = ForwardFill(@)])}
    ELSE IF fix_type = "Backward Fill" \/ Contains(NameParts(fix_type), <<"Backward Fill">>)
    THEN {Returned([frame EXCEPT !.rows = BackwardFill(@)])}
    ELSE IF fix_type = "Drop Rows (Nulls)"
    THEN {Returned([frame EXCEPT !.rows = SelectRows(@, NonNullIdx(@))])}
    ELSE IF fix_type = "Convert to Absolute"
    THEN {Returned([frame EXCEPT !.rows =
                       [i \in 1..Len(@) |-> IF @[i] = Null THEN Null ELSE QAbs(@[i])]])}
    ELSE IF fix_type \in {"Replace with 0", "Set Negatives to 0"}
    THEN {Returned(ReplaceNegatives(frame, Q(0)))}
    ELSE IF fix_type = "Replace with Mean"
    THEN IF Mean(frame.rows) = Null THEN {Returned(frame)}
         ELSE {Returned(CastFloat64(ReplaceNegatives(frame, Mean(frame.rows))))}
    ELSE IF fix_type = "Drop Rows (Negatives)"
    THEN {Returned([frame EXCEPT !.rows =
                       SelectRows(@, {i \in 1..Len(@) : KeepsRow(@[i])})])}
    ELSE IF fix_type \in {"Remove Duplicates", "Keep First", "Keep Last"}
    THEN Unique(frame)
    ELSE {Returned(frame)}

(***************************************************************************)
(* The session state and the checkpoint ledger (app/state_manager.py).     *)
(* Handlers are written as functions from the session state (a record of   *)
(* the session variables) to the session state.  The two objects the code  *)
(* mutates in place, the list fast_issues and the set ignored_issues, are  *)
(* held by reference; the other lists are only ever rebound, and are held  *)
(* by value.  A checkpoint's timestamp, changeset, uploaded_file and       *)
(* header_idx are left out: no handler modelled here reads them.           *)
(***************************************************************************)
MaxHistory == 6

MaxUnrecorded == 2

Max(S) == CHOOSE x \in S : \A y \in S : y <= x

FreshRef(heap) == IF DOMAIN heap = {} THEN 1 ELSE Max(DOMAIN heap) + 1

SessionState ==
    [df |-> df, history |-> history, schema_locked |-> schema_locked,
     app_stage |-> app_stage, fast_issues |-> fast_issues,
     vocab_issues |-> vocab_issues, stat_issues |-> stat_issues,
     deep_issues |-> deep_issues, ignored_issues |-> ignored_issues,
     fast_count_start |-> fast_count_start,
     deep_count_start |-> deep_count_start,
     cols_normalized |-> cols_normalized, schema_mode |-> schema_mode,
     lists |-> lists, sets |-> sets]

\* state_manager.py:5-31
init_session_state ==
    [df |-> NoneValue, history |-> << >>, schema_locked |-> FALSE,
     app_stage |-> "UPLOAD", fast_issues |-> 1,
     vocab_issues |-> << >>, stat_issues |-> << >>,
     deep_issues |-> << >>, ignored_issues |-> 1,
     fast_count_start |-> 0, deep_count_start |-> 0,
     cols_normalized |-> FALSE, schema_mode |-> "",
     lists |-> (1 :> << >>), sets |-> (1 :> {})]

\* st.session_state[key] = a new list holding v
BindNewList(s, v) ==
    LET r == FreshRef(s.lists)
    IN [s EXCEPT !.lists = (r :> v) @@ @, !.fast_issues = r]

\* st.session_state["ignored_issues"] = a new set holding v
BindNewSet(s, v) ==
    LET r == FreshRef(s.sets)
    IN [s EXCEPT !.sets = (r :> v) @@ @, !.ignored_issues = r]

\* a checkpoint that stores the session's own list and set objects
save_checkpoint_sharing(s, action_summary, details, category, sub_category) ==
    IF s.df.isNone THEN s
    ELSE IF /\ Len(s.history) > 0
            /\ Last(s.history).summary = action_summary
            /\ Last(s.history).details = details
    THEN s
    ELSE [s EXCEPT !.history = Append(@,
               [df |-> s.df, summary |-> action_summary, details |-> details,
                category |-> category, sub_category |-> sub_category,
                stage_state |-> s.app_stage, schema_locked |-> s.schema_locked,
                fast_issues |-> s.fast_issues, vocab_issues |-> s.vocab_issues,
                stat_issues |-> s.stat_issues, deep_issues |-> s.deep_issues,
                ignored_issues |-> s.ignored_issues,
                fast_count_start |-> s.fast_count_start,
                deep_count_start |-> s.deep_count_start])]

\* state_manager.py:33-79
save_checkpoint(s, action_summary, details, category, sub_category) ==
    IF s.df.isNone THEN s
    ELSE IF /\ Len(s.history) > 0
            /\ Last(s.history).summary = action_summary
            /\ Last(s.history).details = details
    THEN s
    ELSE LET fast_issues_snapshot == FreshRef(s.lists)
             ignored_snapshot == FreshRef(s.sets)
             snapshot ==
               [df |-> s.df, summary |-> action_summary, details |-> details,
                category |-> category, sub_category |-> sub_category,
                stage_state |-> s.app_stage, schema_locked |-> s.schema_locked,
                fast_issues |-> fast_issues_snapshot,
                vocab_issues |-> s.vocab_issues,
                stat_issues |-> s.stat_issues, deep_issues |-> s.deep_issues,
                ignored_issues |-> ignored_snapshot,
                fast_count_start |-> s.fast_count_start,
                deep_count_start |-> s.deep_count_start]
         IN [s EXCEPT
               !.lists = (fast_issues_snapshot :> s.lists[s.fast_issues]) @@ @,
               !.sets = (ignored_snapshot :> s.sets[s.ignored_issues]) @@ @,
               !.history = Append(@, snapshot)]

\* a restore that keeps the later checkpoints
restore_checkpoint_keeping(s, index) ==
    LET snapshot == s.history[index + 1]
        s1 == BindNewList(s, s.lists[snapshot.fast_issues])
        s2 == BindNewSet(s1, s.sets[snapshot.ignored_issues])
    IN [s2 EXCEPT
          !.df = snapshot.df,
          !.app_stage = snapshot.stage_state,
          !.schema_locked = snapshot.schema_locked,
          !.vocab_issues = snapshot.vocab_issues,
          !.stat_issues = snapshot.stat_issues,
          !.deep_issues = snapshot.deep_issues,
          !.fast_count_start = snapshot.fast_count_start,
          !.deep_count_start = snapshot.deep_count_start]

\* state_manager.py:81-108; index counts from 0
restore_checkpoint(s, index) ==
    LET snapshot == s.history[index + 1]
        s1 == BindNewList(s, s.lists[snapshot.fast_issues])
        s2 == BindNewSet(s1, s.sets[snapshot.ignored_issues])
    IN [s2 EXCEPT
          !.df = snapshot.df,
          !.app_stage = snapshot.stage_state,
          !.schema_locked = snapshot.schema_locked,
          !.vocab_issues = snapshot.vocab_issues,
          !.stat_issues = snapshot.stat_issues,
          !.deep_issues = snapshot.deep_issues,
          !.fast_count_start = snapshot.fast_count_start,
          !.deep_count_start = snapshot.deep_count_start,
          !.history = SubSeq(@, 1, index + 1)]

(***************************************************************************)
(* Object references are renamed after every handler to the order in which *)
(* the session reaches them (the live object first, then the checkpoints'  *)
(* in order), and objects nothing refers to are dropped.                   *)
(***************************************************************************)
FirstIndex(seq, r) == Min({j \in 1..Len(seq) : seq[j] = r})

RankOf(seq, r) == Cardinality({seq[j] : j \in 1..FirstIndex(seq, r)})

Renamed(heap, order) ==
    [n \in 1..Cardinality(Range(order)) |->
        heap[CHOOSE r \in Range(order) : RankOf(order, r) = n]]

Normalize(s) ==
    LET lo == <<s.fast_issues>>
              \o [i \in 1..Len(s.history) |-> s.history[i].fast_issues]
        so == <<s.ignored_issues>>
              \o [i \in 1..Len(s.history) |-> s.history[i].ignored_issues]
    IN [s EXCEPT
          !.fast_issues = RankOf(lo, @),
          !.ignored_issues = RankOf(so, @),
          !.history = [i \in 1..Len(s.history) |->
                          [s.history[i] EXCEPT
                              !.fast_issues = RankOf(lo, @),
                              !.ignored_issues = RankOf(so, @)]],
          !.lists = Renamed(s.lists, lo),
          !.sets = Renamed(s.sets, so)]

\* how many handlers in a row have changed the table and left the history as
\* long as it was, when the session becomes n
Unrecorded(n) ==
    IF Len(n.history) # Len(history) THEN 0
    ELSE IF n.df # df THEN last.unrecorded + 1
    ELSE last.unrecorded

\* the session variables take the values of s, and last records the handler;
\* the history is kept within MaxHistory and the run of unrecorded changes
\* within MaxUnrecorded
Commit(s, info) ==
    \E n \in {Normalize(s)} :
       /\ Len(n.history) <= MaxHistory
       /\ Unrecorded(n) <= MaxUnrecorded
       /\ df' = n.df
       /\ history' = n.history
       /\ schema_locked' = n.schema_locked
       /\ app_stage' = n.app_stage
       /\ fast_issues' = n.fast_issues
       /\ vocab_issues' = n.vocab_issues
       /\ stat_issues' = n.stat_issues
       /\ deep_issues' = n.deep_issues
       /\ ignored_issues' = n.ignored_issues
       /\ fast_count_start' = n.fast_count_start
       /\ deep_count_start' = n.deep_count_start
       /\ cols_normalized' = n.cols_normalized
       /\ schema_mode' = n.schema_mode
       /\ lists' = n.lists
       /\ sets' = n.sets
       /\ last' = [info EXCEPT !.unrecorded = Unrecorded(n)]
       /\ UNCHANGED <<janitorVars, scanVars, genVars, fix_call, llmVars, colVars>>

NoHandler ==
    [op |-> "start", branch |-> "", index |-> 0, unrecorded |-> 0,
     sentinel |-> FALSE, executed |-> FALSE, looked_up |-> FALSE,
     call_raised |-> FALSE]

\* what last records for a handler that reached the branch
Did(op, branch) == [NoHandler EXCEPT !.op = op, !.branch = branch]

\* the session after init_session_state
SessionInit ==
    /\ df = init_session_state.df
    /\ history = init_session_state.history
    /\ schema_locked = init_session_state.schema_locked
    /\ app_stage = init_session_state.app_stage
    /\ fast_issues = init_session_state.fast_issues
    /\ vocab_issues = init_session_state.vocab_issues
    /\ stat_issues = init_session_state.stat_issues
    /\ deep_issues = init_session_state.deep_issues
    /\ ignored_issues = init_session_state.ignored_issues
    /\ fast_count_start = init_session_state.fast_count_start
    /\ deep_count_start = init_session_state.deep_count_start
    /\ cols_normalized = init_session_state.cols_normalized
    /\ schema_mode = init_session_state.schema_mode
    /\ lists = init_session_state.lists
    /\ sets = init_session_state.sets
    /\ last = NoHandler

\* the state after construction: no call of run_janitor made, no file loaded
Init ==
    /\ JanitorInit
    /\ SessionInit
    /\ ScanIdle
    /\ GenIdle
    /\ FixIdle
    /\ LlmIdle
    /\ ColIdle

SpecJanitor == Init /\ [][JanitorNext]_vars

(***************************************************************************)
(* The pages before the audit (ui/upload.py, ui/schema.py) and the audit   *)
(* trail (ui/sidebar.py).  The schema page's type casts and its manual     *)
(* wizard are not modelled: the table enters the audit with the types      *)
(* inferred at load.                                                       *)
(***************************************************************************)
Files ==
    { [name |-> "orders.csv",
       frame |-> DataFrame("Int64", <<Null, Q(-2), Q(-2)>>)],
      [name |-> "stock.csv",
       frame |-> DataFrame("Int64", <<Q(4)>>)] }

LoadError == [name |-> "broken.csv", frame |-> NoneValue]

\* upload.py:12-26; load_data (utils.py:19-27) gives a table or an error text
LoadAndInitialize(s, file) ==
    LET s1 == [s EXCEPT !.df = file.frame]
        s2 == save_checkpoint(s1, <<"Data Loaded">>,
                  <<"File: ", file.name, " | Rows: ", Str(Height(file.frame))>>,
                  "Ingestion", "")
        s3 == save_checkpoint(s2, <<"Initial Schema Detected">>,
                  <<"Polars inferred types.">>, "Schema", "System")
    IN [s3 EXCEPT !.app_stage = "SCHEMA"]

\* an upload that records its failure in the ledger
UploadRecordingFailure ==
    /\ app_stage = "UPLOAD"
    /\ \E file \in Files \cup {LoadError} :
         IF file.frame.isNone
         THEN Commit(save_checkpoint(SessionState, <<"Load Failed">>,
                         <<"File: ", file.name>>, "Ingestion", ""),
                     Did("upload", "error"))
         ELSE Commit(LoadAndInitialize(SessionState, file), Did("upload", "ok"))

Upload ==
    /\ app_stage = "UPLOAD"
    /\ \E file \in Files \cup {LoadError} :
         IF file.frame.isNone
         THEN Commit(SessionState, Did("upload", "error"))
         ELSE Commit(LoadAndInitialize(SessionState, file), Did("upload", "ok"))

\* schema.py:27-31; the column is already named in snake case
NormalizeAndProceed ==
    /\ app_stage = "SCHEMA"
    /\ ~cols_normalized
    /\ Commit(save_checkpoint([SessionState EXCEPT !.cols_normalized = TRUE],
                  <<"Columns Normalized">>, <<"Converted to snake_case">>,
                  "Schema", "System"),
              Did("normalize", "ok"))

\* schema.py:43-47
UseAutoDetect ==
    /\ app_stage = "SCHEMA"
    /\ cols_normalized
    /\ schema_mode = ""
    /\ Commit(save_checkpoint([SessionState EXCEPT !.schema_mode = "AUTO"],
                  <<"Schema Mode: Auto">>, <<"User selected Auto-Detect">>,
                  "Schema", "System"),
              Did("auto_detect", "ok"))

\* schema.py:106-110: the checkpoint is taken before the stage changes
ConfirmSchema ==
    /\ app_stage = "SCHEMA"
    /\ cols_normalized
    /\ schema_mode = "AUTO"
    /\ Commit([save_checkpoint(SessionState, <<"Schema Confirmed">>,
                   <<"Locked data types.">>, "Audit", "System")
                 EXCEPT !.schema_locked = TRUE, !.app_stage = "AUDIT"],
              Did("confirm_schema", "ok"))

\* a revert control that restores the entry it stands next to
RevertTargetItself(i) == i

\* sidebar.py:22: the checkpoint that the button of history item i restores
RevertTarget(i) == IF i > 0 THEN i - 1 ELSE 0

\* sidebar.py:21-23: the button of history item i (counted from 0)
Revert ==
    \E i \in 0..(Len(history) - 1) :
       LET index == RevertTarget(i)
       IN Commit(restore_checkpoint(SessionState, index),
                 [Did("revert", "ok") EXCEPT !.index = index])

\* the audit page renders its tabs (audit.py:8-70); with no table it fails
\* at audit.py:33 before any tab
AuditPage == app_stage = "AUDIT" /\ ~df.isNone

(***************************************************************************)
(* The structural tab (ui/audit_fast.py).                                  *)
(***************************************************************************)
\* audit_fast.py:8-20
run_fast_scan_filtered(s, frame) ==
    LET raw_issues == scan_structural_issues(frame)
    IN SelectRows(raw_issues,
          {j \in 1..Len(raw_issues) :
              <<raw_issues[j].column, raw_issues[j].type>>
                 \notin s.sets[s.ignored_issues]})

\* audit_fast.py:25-46
RunFastScan ==
    /\ AuditPage
    /\ LET s == SessionState
           filtered == run_fast_scan_filtered(s, s.df)
           s1 == BindNewList(s, filtered)
           s2 == IF s1.fast_count_start = 0
                 THEN [s1 EXCEPT !.fast_count_start = Len(filtered)]
                 ELSE s1
       IN Commit(save_checkpoint(s2, <<"Fast Scan Run">>,
                     <<"Found ", Str(Len(filtered)), " issues.">>,
                     "Audit", "Scan"),
                 Did("fast_scan", "ok"))

\* audit_fast.py:79-88: the live set and the live list are changed in place,
\* the set before the checkpoint and the list after it
Ignore ==
    /\ AuditPage
    /\ \E i \in 1..Len(lists[fast_issues]) :
         LET s == SessionState
             issue == s.lists[s.fast_issues][i]
             s1 == [s EXCEPT !.sets[s.ignored_issues] =
                                @ \cup {<<issue.column, issue.type>>}]
             s2 == save_checkpoint(s1, <<"Ignored Issue">>,
                       <<"Ignored ", issue.type, " in ", issue.column>>,
                       "Audit", "Structural")
             s3 == [s2 EXCEPT !.lists[s2.fast_issues] =
                                SelectRows(@, (1..Len(@)) \ {i})]
         IN Commit(s3, Did("ignore", "ok"))

\* audit_fast.py:56-62
FinalMenu(issue) ==
    issue.options
    \o (IF issue.type = "Missing Values" THEN <<"Fill with Custom Value">>
        ELSE IF issue.type = "Negative Values"
        THEN <<"Replace Negatives with Custom Value">>
        ELSE << >>)

IsCustom(selected_fix) ==
    selected_fix \in {"Fill with Custom Value",
                      "Replace Negatives with Custom Value"}

\* what may be typed into the value box: the text, whether float() takes
\* it, and the number it stands for
CustomInputs ==
    { [text |-> "", valid |-> TRUE, val |-> Null],
      [text |-> "7", valid |-> TRUE, val |-> Q(7)],
      [text |-> "n/a", valid |-> FALSE, val |-> Null] }

NoInput == [text |-> "", valid |-> TRUE, val |-> Null]

\* utils.py:46-59 for a numeric column
validate_input(input) == input.text = "" \/ input.valid

\* audit_fast.py:104-130, given what apply_fix returned
ApplyFixDone(s, issue, clean_strategy, input, new_df) ==
    LET s1 == [s EXCEPT !.df = new_df]
        s2 == BindNewList(s1, run_fast_scan_filtered(s1, new_df))
        fix_desc == <<"Strategy: ", clean_strategy>>
                    \o (IF input.text # "" THEN <<" (", input.text, ")">>
                        ELSE << >>)
    IN save_checkpoint(s2, <<"Fixed ", issue.column>>, fix_desc,
                       "Audit", "Structural")

\* audit_fast.py:92-132
ApplyFix ==
    /\ AuditPage
    /\ \E i \in 1..Len(lists[fast_issues]) :
         LET s == SessionState
             issue == s.lists[s.fast_issues][i]
         IN \E m \in 1..Len(FinalMenu(issue)) :
              LET selected_fix == FinalMenu(issue)[m]
              IN \E input \in (IF IsCustom(selected_fix) THEN CustomInputs
                               ELSE {NoInput}) :
                   IF ~validate_input(input)
                   THEN Commit(s, Did("apply_fix", "invalid"))
                   ELSE \E out \in apply_fix(s.df, selected_fix, issue.column,
                                             input.val) :
                          IF out.raised
                          THEN Commit(s, Did("apply_fix", "error"))
                          ELSE Commit(ApplyFixDone(s, issue, selected_fix,
                                                   input, out.frame),
                                      Did("apply_fix", "ok"))

(***************************************************************************)
(* The callers of run_janitor (ui/audit_advanced.py, ui/audit_semantic.py). *)
(* The text and date columns that the advanced scanners and the language   *)
(* model look at are not held in the table; what a scan finds is an input. *)
(***************************************************************************)
\* loc['clean_data'](df) for the functions of the reply vocabulary
CallCleanData(fn, frame) ==
    CASE fn = FnDropFirst ->
           Returned([frame EXCEPT !.rows = SelectRows(@, 2..Len(@))])
      [] fn = FnDropNulls ->
           Returned([frame EXCEPT !.rows = SelectRows(@, NonNullIdx(@))])
      [] fn = FnNoReturn -> Returned(NoneValue)
      [] fn = FnBadColumn -> Raised

\* a call whose exception is swallowed, leaving a table to bind
RunGeneratedSwallowing(code, frame) ==
    LET r == Exec(code, SeedEnv)
    IN IF r.raised
       THEN [raised |-> TRUE, looked_up |-> FALSE, call_raised |-> FALSE,
             frame |-> NoneValue]
       ELSE IF "clean_data" \notin DOMAIN r.env
       THEN [raised |-> TRUE, looked_up |-> TRUE, call_raised |-> FALSE,
             frame |-> NoneValue]
       ELSE LET out == CallCleanData(r.env["clean_data"], frame)
            IN [raised |-> FALSE, looked_up |-> TRUE,
                call_raised |-> out.raised,
                frame |-> IF out.raised
                          THEN [frame EXCEPT !.rows = SelectRows(@, 2..Len(@))]
                          ELSE out.frame]

\* exec(code, globals(), loc) and new_df = loc['clean_data'](df), the first
\* two lines of each caller's try block: whether an exception left the block
\* (raised), whether clean_data was looked up, whether the call itself
\* raised, and what the call returned
RunGenerated(code, frame) ==
    LET r == Exec(code, SeedEnv)
    IN IF r.raised
       THEN [raised |-> TRUE, looked_up |-> FALSE, call_raised |-> FALSE,
             frame |-> NoneValue]
       ELSE IF "clean_data" \notin DOMAIN r.env
       THEN [raised |-> TRUE, looked_up |-> TRUE, call_raised |-> FALSE,
             frame |-> NoneValue]
       ELSE LET out == CallCleanData(r.env["clean_data"], frame)
            IN [raised |-> out.raised, looked_up |-> TRUE,
                call_raised |-> out.raised, frame |-> out.frame]

\* what last records for a caller of run_janitor
Called(op, branch, code, g) ==
    [Did(op, branch) EXCEPT !.sentinel = IsFailureSentinel(code),
                            !.executed = TRUE,
                            !.looked_up = g.looked_up,
                            !.call_raised = g.call_raised]

VocabScanResults ==
    { << >>, <<[type |-> "Inconsistent Case", column |-> "city"]>> }

StatScanResults ==
    { << >>,
      <<[type |-> "Suspicious Year (Outside 1900-2030)", column |-> "shipped"]>> }

DeepScanResults ==
    { << >>,
      <<[column |-> "c", issue |-> "Negative quantity", count |-> 2]>> }

\* audit_advanced.py:44-56
RunVocabularyScan ==
    /\ AuditPage
    /\ \E issues \in VocabScanResults :
         Commit(save_checkpoint([SessionState EXCEPT !.vocab_issues = issues],
                    <<"Vocabulary Scan">>,
                    <<"Found ", Str(Len(issues)), " issues.">>,
                    "Audit", "Scan"),
                Did("vocab_scan", "ok"))

\* audit_advanced.py:121-133
RunStatisticalScan ==
    /\ AuditPage
    /\ \E issues \in StatScanResults :
         Commit(save_checkpoint([SessionState EXCEPT !.stat_issues = issues],
                    <<"Statistical Scan">>,
                    <<"Found ", Str(Len(issues)), " anomalies.">>,
                    "Audit", "Scan"),
                Did("stat_scan", "ok"))

\* audit_advanced.py:82-101
VocabFixIssue ==
    /\ AuditPage
    /\ \E i \in 1..Len(vocab_issues), code \in run_janitor :
         LET s == SessionState
             issue == s.vocab_issues[i]
             g == RunGenerated(code, s.df)
         IN IF g.raised \/ g.frame.isNone
            THEN Commit(s, Called("vocab_fix", "error", code, g))
            ELSE Commit(save_checkpoint([s EXCEPT !.df = g.frame],
                            <<"Fixed ", issue.column>>, <<"Fixed ", issue.type>>,
                            "Audit", "Structural"),
                        Called("vocab_fix", "ok", code, g))

\* audit_advanced.py:156-175: the table is assigned before the row counts
\* are compared
StatFixIssue ==
    /\ AuditPage
    /\ \E i \in 1..Len(stat_issues), code \in run_janitor :
         LET s == SessionState
             issue == s.stat_issues[i]
             g == RunGenerated(code, s.df)
         IN IF g.raised
            THEN Commit(s, Called("stat_fix", "error", code, g))
            ELSE IF g.frame.isNone
            THEN Commit([s EXCEPT !.df = g.frame],
                        Called("stat_fix", "error", code, g))
            ELSE Commit(save_checkpoint([s EXCEPT !.df = g.frame],
                            <<"Fixed ", issue.column>>, <<"Fixed ", issue.type>>,
                            "Audit", "Structural"),
                        Called("stat_fix", "ok", code, g))

(***************************************************************************)
(* The semantic tab (ui/audit_semantic.py).  Its number input needs a      *)
(* table of at least one row (audit_semantic.py:39).                       *)
(***************************************************************************)
SemanticTab == AuditPage /\ Height(df) >= 1

Sum(issues) ==
    IF issues = << >> THEN 0 ELSE issues[1].count

\* audit_semantic.py:58-110, with the row limit left at its default
StartLogicScan ==
    /\ SemanticTab
    /\ \E issues \in DeepScanResults :
         LET s == SessionState
             limit == Min({20, Height(s.df)})
             s1 == [s EXCEPT !.deep_issues = issues]
             s2 == IF s1.deep_count_start = 0
                   THEN [s1 EXCEPT !.deep_count_start = Sum(issues)]
                   ELSE s1
         IN Commit(save_checkpoint(s2, <<"Logic Scan Run">>,
                       <<"Scanned ", Str(limit), " rows. Found ",
                         Str(Len(issues)), " issues.">>,
                       "Audit", "Scan"),
                   Did("logic_scan", "ok"))

\* audit_semantic.py:113-118
ClearResults ==
    /\ SemanticTab
    /\ deep_issues # << >>
    /\ Commit([SessionState EXCEPT !.deep_issues = << >>], Did("clear", "ok"))

\* audit_semantic.py:126-154
FixLogic ==
    /\ SemanticTab
    /\ \E i \in 1..Len(deep_issues), code \in run_janitor :
         LET s == SessionState
             issue == s.deep_issues[i]
             g == RunGenerated(code, s.df)
         IN IF g.raised \/ g.frame.isNone
            THEN Commit(s, Called("logic_fix", "error", code, g))
            ELSE Commit(save_checkpoint([s EXCEPT !.df = g.frame],
                            <<"Fixed ", issue.column>>, <<"Logic: ", issue.issue>>,
                            "Audit", "Logic"),
                        Called("logic_fix", "ok", code, g))

(***************************************************************************)
(* The session as a state machine.  The janitor's variables stay at their  *)
(* initial values: a caller sees run_janitor only through what it returns. *)
(***************************************************************************)
Next ==
    \/ Upload
    \/ NormalizeAndProceed
    \/ UseAutoDetect
    \/ ConfirmSchema
    \/ Revert
    \/ RunFastScan
    \/ Ignore
    \/ ApplyFix
    \/ RunVocabularyScan
    \/ VocabFixIssue
    \/ RunStatisticalScan
    \/ StatFixIssue
    \/ StartLogicScan
    \/ ClearResults
    \/ FixLogic

Spec == Init /\ [][Next]_vars

(***************************************************************************)
(* The semantic scanner (app/deep_scanner.py:171-255).  A JSON value is a  *)
(* record tagged with its kind; the text of a string is a sequence of      *)
(* pieces, as everywhere in this module.                                   *)
(***************************************************************************)
JNull == [kind |-> "null"]

JInt(n) == [kind |-> "int", n |-> n]

JStr(text) == [kind |-> "str", s |-> text]

JList(items) == [kind |-> "list", items |-> items]

\* fields is a record: the keys of the object and their values
JDict(fields) == [kind |-> "dict", f |-> fields]

\* bool(v)
Truthy(v) ==
    CASE v.kind = "null" -> FALSE
      [] v.kind = "int" -> v.n # 0
      [] v.kind = "str" -> v.s # << >>
      [] v.kind = "list" -> v.items # << >>
      [] v.kind = "dict" -> DOMAIN v.f # {}

\* a or b
Or(a, b) == IF Truthy(a) THEN a ELSE b

\* d.get(key)
Get(d, key) == IF key \in DOMAIN d.f THEN d.f[key] ELSE JNull

\* f"{v}" for the values that occur as column and issue
Format(v) ==
    CASE v.kind = "str" -> v.s
      [] v.kind = "int" -> <<Str(v.n)>>
      [] v.kind = "null" -> <<"None">>
      [] OTHER -> <<"<repr>">>

Finding(row_index, column, issue) ==
    JDict([row_index |-> JInt(row_index), column |-> JStr(column),
           issue |-> JStr(issue)])

\* the JSON texts of the model's replies, and what json.loads makes of them
TextEmptyList == "[]"
TextRowZero == "[{\"row_index\": 0, \"column\": \"qty\", \"issue\": \"negative\"}]"
TextRowTwo == "[{\"row_index\": 2, \"column\": \"qty\", \"issue\": \"negative\"}]"
TextColons == "[{\"row_index\": 3, \"column\": \"qty: total\", \"issue\": \"mismatch\"}, {\"row_index\": 4, \"column\": \"qty\", \"issue\": \"total: mismatch\"}]"
TextNumber == "42"
TextObject == "{\"row_index\": 1, \"column\": \"qty\", \"issue\": \"negative\"}"
TextNumbers == "[1]"

JsonTexts ==
    {TextEmptyList, TextRowZero, TextRowTwo, TextColons, TextNumber,
     TextObject, TextNumbers}

Decoded(text) ==
    CASE text = TextEmptyList -> JList(<< >>)
      [] text = TextRowZero -> JList(<<Finding(0, <<"qty">>, <<"negative">>)>>)
      [] text = TextRowTwo -> JList(<<Finding(2, <<"qty">>, <<"negative">>)>>)
      [] text = TextColons ->
           JList(<<Finding(3, <<"qty", ": ", "total">>, <<"mismatch">>),
                   Finding(4, <<"qty">>, <<"total", ": ", "mismatch">>)>>)
      [] text = TextNumber -> JInt(42)
      [] text = TextObject -> Finding(1, <<"qty">>, <<"negative">>)
      [] text = TextNumbers -> JList(<<JInt(1)>>)

\* json.loads(content): the whole text must be one JSON document
json_loads(content) ==
    IF Len(content) = 1 /\ content[1] \in JsonTexts
    THEN [raised |-> FALSE, value |-> Decoded(content[1])]
    ELSE [raised |-> TRUE, value |-> JNull]

FenceJson == "<fence>json"

FencePieces == {Fence, FencePy, FenceJson}

\* content.replace(<fence>, "") for analyze_batch: what stays of each piece
RECURSIVE WithoutFences(_)
WithoutFences(content) ==
    IF content = << >> THEN << >>
    ELSE IF Head(content) = Fence THEN WithoutFences(Tail(content))
    ELSE IF Head(content) = FencePy
    THEN <<"python">> \o WithoutFences(Tail(content))
    ELSE IF Head(content) = FenceJson
    THEN <<"json">> \o WithoutFences(Tail(content))
    ELSE <<Head(content)>> \o WithoutFences(Tail(content))

\* deep_scanner.py:213-219
CleanWrappers(raw) ==
    LET content == Strip(raw)
        opens == {i \in 1..Len(content) : content[i] = FenceJson}
    IN IF opens # {}
       THEN LET after == SubSeq(content, Min(opens) + 1, Len(content))
                closes == {j \in 1..Len(after) : after[j] \in FencePieces}
            IN Strip(SubSeq(after, 1,
                            IF closes = {} THEN Len(after) ELSE Min(closes) - 1))
       ELSE IF \E i \in 1..Len(content) : content[i] \in FencePieces
       THEN Strip(WithoutFences(content))
       ELSE content

\* what llm.invoke gives for one batch: it raises, or answers with a text
BatchReply(content) == [raised |-> FALSE, content |-> content]

BatchResponses ==
    {[raised |-> TRUE, content |-> << >>]} \cup
    {BatchReply(content) : content \in
        {<<TextEmptyList>>, <<TextRowZero>>, <<TextNumber>>, <<TextObject>>,
         <<TextNumbers>>, <<Prose, NL, TextRowZero>>,
         <<Fence, NL, TextRowTwo, NL, Fence>>,
         <<Prose, NL, FenceJson, NL, TextColons, NL, Fence, NL, Prose>>}}

\* deep_scanner.py:205-228: the value json.loads returns, whatever its kind
analyze_batch(response) ==
    IF response.raised THEN JList(<< >>)
    ELSE LET loaded == json_loads(CleanWrappers(response.content))
         IN IF loaded.raised THEN JList(<< >>) ELSE loaded.value

\* the keys of an object in the order its text gives them
Keys(d) == SelectSeq(<<"row_index", "column", "issue">>,
                     LAMBDA k : k \in DOMAIN d.f)

\* list.extend(x): a list gives its items, an object its keys, a text its
\* parts; a number or None is not iterable (TypeError)
Extend(list, x) ==
    CASE x.kind = "list" -> [raised |-> FALSE, value |-> list \o x.items]
      [] x.kind = "dict" ->
           [raised |-> FALSE,
            value |-> list \o [i \in 1..Len(Keys(x)) |-> JStr(<<Keys(x)[i]>>)]]
      [] x.kind = "str" ->
           [raised |-> FALSE,
            value |-> list \o [i \in 1..Len(x.s) |-> JStr(<<x.s[i]>>)]]
      [] OTHER -> [raised |-> TRUE, value |-> list]

RowsKept == 5

\* f"{col}: {issue}"
GroupKey(col, issue) == Format(col) \o <<": ">> \o Format(issue)

\* one pass of the loop body, deep_scanner.py:237-253, over the ordered dict
AddToGroups(grouped, err) ==
    LET col == Or(Or(Get(err, "column"), Get(err, "Col")), JStr(<<"Unknown">>))
        issue == Or(Or(Get(err, "issue"), Get(err, "Issue")),
                    JStr(<<"Logic Error">>))
        row_idx == Or(Or(Get(err, "row_index"), Get(err, "Row")), JStr(<<"?">>))
        key == GroupKey(col, issue)
        known == \E i \in 1..Len(grouped) : grouped[i].key = key
        with == IF known THEN grouped
                ELSE Append(grouped, [key |-> key, column |-> col,
                                      issue |-> issue, count |-> 0,
                                      rows |-> << >>, type |-> "Logic Paradox"])
    IN [i \in 1..Len(with) |->
          IF with[i].key = key
          THEN [with[i] EXCEPT !.count = @ + 1,
                               !.rows = IF Len(@) < RowsKept
                                        THEN Append(@, row_idx) ELSE @]
          ELSE with[i]]

RECURSIVE GroupAll(_, _)
GroupAll(raw_issues, grouped) ==
    IF raw_issues = << >> THEN [raised |-> FALSE, value |-> grouped]
    ELSE IF Head(raw_issues).kind # "dict"       \* no .get: AttributeError
    THEN [raised |-> TRUE, value |-> << >>]
    ELSE GroupAll(Tail(raw_issues), AddToGroups(grouped, Head(raw_issues)))

aggregate_deep_issues(raw_issues) == GroupAll(raw_issues, << >>)

(***************************************************************************)
(* One press of "Start AI Logic Scan" (app/ui/audit_semantic.py:75-97):    *)
(* scan_left batches are still to be analysed, scan_raw is raw_issues and  *)
(* scan_out the stored issue list.  An exception that leaves the handler   *)
(* ends the scan with nothing stored.                                      *)
(***************************************************************************)
MaxBatches == 3

InitScan ==
    /\ JanitorInit /\ SessionInit /\ GenIdle /\ FixIdle /\ LlmIdle /\ ColIdle
    /\ scan_pc = "scanning"
    /\ scan_left \in 0..MaxBatches
    /\ scan_raw = << >>
    /\ scan_out = << >>

ScanBatch ==
    /\ scan_pc = "scanning"
    /\ scan_left > 0
    /\ \E response \in BatchResponses :
         LET extended == Extend(scan_raw, analyze_batch(response))
         IN IF extended.raised
            THEN /\ scan_pc' = "aborted"
                 /\ UNCHANGED <<scan_left, scan_raw, scan_out>>
            ELSE /\ scan_raw' = extended.value
                 /\ scan_left' = scan_left - 1
                 /\ UNCHANGED <<scan_pc, scan_out>>
    /\ UNCHANGED <<janitorVars, sessionVars, genVars, fix_call, llmVars, colVars>>

ScanAggregate ==
    /\ scan_pc = "scanning"
    /\ scan_left = 0
    /\ LET issues == aggregate_deep_issues(scan_raw)
       IN IF issues.raised
          THEN /\ scan_pc' = "aborted"
               /\ UNCHANGED scan_out
          ELSE /\ scan_pc' = "stored"
               /\ scan_out' = issues.value
    /\ UNCHANGED <<scan_left, scan_raw>>
    /\ UNCHANGED <<janitorVars, sessionVars, genVars, fix_call, llmVars, colVars>>

NextScan == ScanBatch \/ ScanAggregate

SpecScan == InitScan /\ [][NextScan]_vars

(***************************************************************************)
(* get_batches (app/deep_scanner.py:162-169), one step up to each yield    *)
(* and one from it.  gen_rows is the table (its rows, told apart by        *)
(* position), gen_size the batch_size argument, gen_out the slices yielded *)
(* so far.                                                                 *)
(* A run that has yielded more slices than the table has rows is recorded  *)
(* up to its first Len(gen_rows) + 1 slices.                               *)
(***************************************************************************)
MaxHeight == 6

MaxBatchSize == 4

\* df.slice(offset, length) with a 1-based mutant that starts one row early
SliceFromOne(rows, offset, length) ==
    SubSeq(rows, Max({offset, 1}), Min({offset + length, Len(rows)}))

\* df.slice(offset, length) for 0 <= offset: rows offset .. offset+length-1
Slice(rows, offset, length) ==
    SubSeq(rows, offset + 1, Min({offset + length, Len(rows)}))

InitBatches ==
    /\ JanitorInit /\ SessionInit /\ ScanIdle /\ FixIdle /\ LlmIdle /\ ColIdle
    /\ gen_pc = "running"
    /\ \E height \in 0..MaxHeight : gen_rows = [i \in 1..height |-> i]
    /\ gen_size \in 0..MaxBatchSize
    /\ current_idx = 0
    /\ gen_out = << >>

\* while current_idx < height: yield df.slice(current_idx, batch_size)
GenYield ==
    /\ gen_pc = "running"
    /\ current_idx < Len(gen_rows)
    /\ gen_out' = IF Len(gen_out) <= Len(gen_rows)
                  THEN Append(gen_out, Slice(gen_rows, current_idx, gen_size))
                  ELSE gen_out
    /\ gen_pc' = "yielded"
    /\ UNCHANGED <<gen_rows, gen_size, current_idx>>
    /\ UNCHANGED <<janitorVars, sessionVars, scanVars, fix_call, llmVars, colVars>>

\* the consumer asks for the next slice: current_idx += batch_size, and the
\* loop condition is tested again
GenResume ==
    /\ gen_pc = "yielded"
    /\ current_idx' = current_idx + gen_size
    /\ gen_pc' = "running"
    /\ UNCHANGED <<gen_rows, gen_size, gen_out>>
    /\ UNCHANGED <<janitorVars, sessionVars, scanVars, fix_call, llmVars, colVars>>

\* the loop condition fails and the generator is exhausted
GenStop ==
    /\ gen_pc = "running"
    /\ ~(current_idx < Len(gen_rows))
    /\ gen_pc' = "stopped"
    /\ UNCHANGED <<gen_rows, gen_size, current_idx, gen_out>>
    /\ UNCHANGED <<janitorVars, sessionVars, scanVars, fix_call, llmVars, colVars>>

NextBatches == GenYield \/ GenResume \/ GenStop

\* the consumer, list(get_batches(...)), asks for the next slice at once
SpecBatches == InitBatches /\ [][NextBatches]_vars /\ WF_vars(NextBatches)

(***************************************************************************)
(* One call of apply_fix (app/structural_fixer.py:3-98) on any table, with *)
(* any strategy name, column and custom value: fix_call holds the          *)
(* arguments and, once the call is over, what it returned.                 *)
(***************************************************************************)
MaxFixRows == 3

\* the cells of the tables: a null, a negative, a small number and a whole
\* number Float64 cannot hold
FixValues == {Null, Q(-2), Q(1), Q(LargestExactInt + 1)}

RECURSIVE SeqsUpTo(_, _)
SeqsUpTo(S, n) ==
    IF n = 0 THEN {<< >>}
    ELSE SeqsUpTo(S, n - 1) \cup
         {Append(q, x) : q \in {r \in SeqsUpTo(S, n - 1) : Len(r) = n - 1}, x \in S}

FixTables == {DataFrame("Int64", rows) : rows \in SeqsUpTo(FixValues, MaxFixRows)}

\* the strategy names apply_fix compares fix_type with
CataloguedNames ==
    {"Fill with Custom Value", "Replace Negatives with Custom Value",
     "Fill with Median", "Fill with Mean", "Fill with Mode", "Fill with 0",
     "Fill with -1", "Fill with 'Unknown'", "Fill with 'Missing'",
     "Forward Fill", "Backward Fill", "Drop Rows (Nulls)",
     "Convert to Absolute", "Replace with 0", "Set Negatives to 0",
     "Replace with Mean", "Drop Rows (Negatives)", "Remove Duplicates",
     "Keep First", "Keep Last"}

\* other names a caller can pass
UncataloguedNames ==
    {"Winsorize", "Drop Rows", "Forward Fill (Grouped)", "Rolling Backward Fill"}

\* the names for which apply_fix reaches one of its branches rather than the
\* final return of the table as it is (structural_fixer.py:9-98)
MapsToTransformation(fix_type) ==
    \/ fix_type \in CataloguedNames
    \/ Contains(NameParts(fix_type), <<"Forward Fill">>)
    \/ Contains(NameParts(fix_type), <<"Backward Fill">>)

ColumnArguments == {"c", "no_such_column"}

\* custom_val as the fixer reads it: no input, 3, 2.5
CustomArguments(fix_type) ==
    IF fix_type \in {"Fill with Custom Value", "Replace Negatives with Custom Value"}
    THEN {Null, Q(3), <<5, 2>>}
    ELSE {Null}

InitFixer ==
    /\ JanitorInit /\ SessionInit /\ ScanIdle /\ GenIdle /\ LlmIdle /\ ColIdle
    /\ \E frame \in FixTables, fix_type \in CataloguedNames \cup UncataloguedNames,
          column \in ColumnArguments :
         \E custom_val \in CustomArguments(fix_type) :
            fix_call = [NoCall EXCEPT !.pc = "called", !.frame = frame,
                                      !.fix_type = fix_type, !.column = column,
                                      !.custom_val = custom_val]

CallApplyFix ==
    /\ fix_call.pc = "called"
    /\ \E out \in apply_fix(fix_call.frame, fix_call.fix_type, fix_call.column,
                            fix_call.custom_val) :
         fix_call' = [fix_call EXCEPT
                        !.pc = IF out.raised THEN "raised" ELSE "returned",
                        !.result = out.frame]
    /\ UNCHANGED <<janitorVars, sessionVars, scanVars, genVars, llmVars, colVars>>

NextFixer == CallApplyFix

SpecFixer == InitFixer /\ [][NextFixer]_vars

(***************************************************************************)
(* The model switch (app/llm_engine.py).  current_active_mode and          *)
(* active_llm_instance are the two module globals ("" is None; an instance *)
(* is known by the model it names).  resident is the set of models the     *)
(* serving backend holds in memory; the backend has room for both.         *)
(* requested lists the roles asked for so far.                             *)
(***************************************************************************)
MaxCalls == 5

Roles == {"coding", "reasoning"}

\* MODELS["coder"] if mode == "coding" else MODELS["reasoning"]
ModelOf(mode) ==
    IF mode = "coding" THEN "granite4:3b" ELSE "phi4-mini-reasoning:3.8b"

\* the request of unload_model reaches the backend and is obeyed, or it
\* fails (no connection, an error status): the failure is only printed
UnloadOutcomes == {"unloaded", "failed"}

\* llm_engine.py:16-28
unload_model(models, model_name, outcome) ==
    IF outcome = "unloaded" THEN models \ {model_name} ELSE models

InitLlm ==
    /\ JanitorInit /\ SessionInit /\ ScanIdle /\ GenIdle /\ FixIdle /\ ColIdle
    /\ current_active_mode = ""
    /\ active_llm_instance = ""
    /\ resident = {}
    /\ requested = << >>

\* llm_engine.py:30-63
GetLlm ==
    \E mode \in Roles, outcome \in UnloadOutcomes :
        LET switching == current_active_mode # "" /\ current_active_mode # mode
            instance == IF switching THEN "" ELSE active_llm_instance
        IN /\ Len(requested) < MaxCalls
           /\ ~switching => outcome = "unloaded"
           /\ requested' = Append(requested, mode)
           /\ resident' = IF switching
                          THEN unload_model(resident, ModelOf(current_active_mode),
                                            outcome)
                          ELSE resident
           /\ IF instance = ""
              THEN /\ active_llm_instance' = ModelOf(mode)
                   /\ current_active_mode' = mode
              ELSE /\ active_llm_instance' = instance
                   /\ UNCHANGED current_active_mode
           /\ UNCHANGED <<janitorVars, sessionVars, scanVars, genVars, fix_call, colVars>>

\* llm.invoke(...) on the instance get_llm returned (janitor.py:56,
\* deep_scanner.py:212): the backend loads the model it names and keeps it
\* for keep_alive = "5m"
InvokeLlm ==
    /\ active_llm_instance # ""
    /\ resident' = resident \cup {active_llm_instance}
    /\ UNCHANGED <<current_active_mode, active_llm_instance, requested>>
    /\ UNCHANGED <<janitorVars, sessionVars, scanVars, genVars, fix_call, colVars>>

\* five idle minutes pass for a model and the backend drops it
KeepAliveExpires ==
    /\ \E model_name \in resident : resident' = resident \ {model_name}
    /\ UNCHANGED <<current_active_mode, active_llm_instance, requested>>
    /\ UNCHANGED <<janitorVars, sessionVars, scanVars, genVars, fix_call, colVars>>

NextLlm == GetLlm \/ InvokeLlm \/ KeepAliveExpires

SpecLlm == InitLlm /\ [][NextLlm]_vars

(***************************************************************************)
(* The vocabulary scanner (app/deep_scanner.py:11-106) on one String       *)
(* column whose name does not hold "email" and whose values hold no        *)
(* encoding artifact.  A value is its sequence of characters.  The column  *)
(* is given by what the scanner reads of it: the number of null cells, the *)
(* count of each value of Vocabulary, and others, the number of further    *)
(* distinct values that occur once each and resemble no other value.       *)
(* Examples are left out of the reported issues.                           *)
(***************************************************************************)
Paris == <<"P", "a", "r", "i", "s">>
ParisLower == <<"p", "a", "r", "i", "s">>
Pariss == <<"P", "a", "r", "i", "s", "s">>
Rome == <<"R", "o", "m", "e">>

Vocabulary == {Paris, ParisLower, Pariss, Rome}

\* str.lower() on one character
LowerChar(ch) == CASE ch = "P" -> "p" [] ch = "R" -> "r" [] OTHER -> ch

Lower(v) == [i \in 1..Len(v) |-> LowerChar(v[i])]

\* the length of a longest common subsequence
RECURSIVE Lcs(_, _)
Lcs(a, b) ==
    IF a = << >> \/ b = << >> THEN 0
    ELSE IF Head(a) = Head(b) THEN 1 + Lcs(Tail(a), Tail(b))
    ELSE Max({Lcs(Tail(a), b), Lcs(a, Tail(b))})

\* fuzz.ratio(a, b) is 100 * 2 * Lcs / (len(a) + len(b)); the test
\* 85 <= score < 100 of deep_scanner.py:94, in whole numbers
IsNearMiss(a, b) ==
    /\ 85 * (Len(a) + Len(b)) <= 200 * Lcs(a, b)
    /\ 200 * Lcs(a, b) < 100 * (Len(a) + Len(b))

\* df[col].n_unique(): a null counts as one more distinct value
n_unique(col) ==
    Cardinality({v \in Vocabulary : col.counts[v] > 0}) + col.others
    + (IF col.nulls > 0 THEN 1 ELSE 0)

\* df.height
TotalRows(col) ==
    LET RECURSIVE Total(_)
        Total(S) == IF S = {} THEN 0
                    ELSE LET v == CHOOSE x \in S : TRUE
                         IN col.counts[v] + Total(S \ {v})
    IN Total(Vocabulary) + col.others + col.nulls

\* the cutoff without its floor of 1: count > total_rows * 0.01
IsCommonByShare(count, total_rows) == 100 * count > total_rows

\* deep_scanner.py:81-83: count > rare_cutoff, for rare_cutoff =
\* max(1, total_rows * 0.01), in whole numbers
IsCommon(count, total_rows) == count > 1 /\ 100 * count > total_rows

\* deep_scanner.py:58
Gate(col) == 2 < n_unique(col) /\ n_unique(col) < 500

\* deep_scanner.py:54-104 for one column: whether the two vocabulary checks
\* ran, the common and rare values of the typo check, and the issues
VocabularyChecks(col) ==
    LET values == {v \in Vocabulary : col.counts[v] > 0}
        total_rows == TotalRows(col)
        common == {v \in values : IsCommon(col.counts[v], total_rows)}
        rare == values \ common
        inconsistent == {Lower(v) : v \in {w \in values :
                            \E x \in values : x # w /\ Lower(x) = Lower(w)}}
        typos == {r \in rare : \E c \in common : IsNearMiss(r, c)}
    IN IF ~Gate(col)
       THEN [ran |-> FALSE, common |-> {}, rare |-> {}, issues |-> << >>]
       ELSE [ran |-> TRUE, common |-> common, rare |-> rare,
             issues |->
                (IF inconsistent # {}
                 THEN <<[type |-> "Inconsistent Case", column |-> "city",
                         count |-> Cardinality(inconsistent)]>>
                 ELSE << >>)
                \o
                (IF typos # {}
                 THEN <<[type |-> "Potential Typos", column |-> "city",
                         count |-> Cardinality(typos)]>>
                 ELSE << >>)]

MaxCount == 3

\* the counts of the value that fills the column, and the numbers of
\* further distinct values
FillerCounts == {0, 2, 96, 194, 296}

OtherValues == {0, 496, 497}

VocabColumns ==
    {[nulls |-> nulls, others |-> others,
      counts |-> [v \in Vocabulary |-> IF v = Rome THEN filler ELSE small[v]]] :
        nulls \in {0, 1}, others \in OtherValues, filler \in FillerCounts,
        small \in [Vocabulary \ {Rome} -> 0..MaxCount]}

InitVocab ==
    /\ JanitorInit /\ SessionInit /\ ScanIdle /\ GenIdle /\ FixIdle /\ LlmIdle
    /\ stat_call = [pc |-> "idle"]
    /\ \E col \in VocabColumns : voc_call = [pc |-> "called", col |-> col]

ScanVocabulary ==
    /\ voc_call.pc = "called"
    /\ voc_call' = [pc |-> "returned", col |-> voc_call.col,
                    out |-> VocabularyChecks(voc_call.col)]
    /\ UNCHANGED <<janitorVars, sessionVars, scanVars, genVars, fix_call, llmVars,
                   stat_call>>

NextVocab == ScanVocabulary

SpecVocab == InitVocab /\ [][NextVocab]_vars

(***************************************************************************)
(* The statistical scanner (app/deep_scanner.py:111-140) on one Int64      *)
(* column, given by the number of its null cells and the count of each     *)
(* whole number of NumValues; the row order, which only the examples of    *)
(* an issue depend on, is left out.                                        *)
(***************************************************************************)
MaxCopies == 1

NumValues == (1..9) \cup {13, 100}

\* the values that may occur more than once
Repeated == {1, 100}

\* the non-null cells in ascending order
RECURSIVE Ascend(_, _)
Ascend(counts, S) ==
    IF S = {} THEN << >>
    ELSE LET least == Min(S)
         IN [i \in 1..counts[least] |-> Q(least)] \o Ascend(counts, S \ {least})

\* Series.quantile(q) for q = num/4 with the default interpolation
\* "nearest": the sorted value at index round((len - 1) * q), halves rounded
\* up; None when the column has no value
Quantile(sorted, num) ==
    IF sorted = << >> THEN Null
    ELSE sorted[((num * (Len(sorted) - 1) + 2) \div 4) + 1]

QNeg(a) == <<-a[1], a[2]>>

\* 1.5 * a
OneAndAHalf(a) == QNorm(3 * a[1], 2 * a[2])

\* the test on a cell with <= and >= in place of < and >
IsOutsideOrOn(cell, lower_bound, upper_bound) ==
    ~QLess(lower_bound, cell) \/ ~QLess(cell, upper_bound)

\* deep_scanner.py:132: (col < lower_bound) | (col > upper_bound)
IsOutside(cell, lower_bound, upper_bound) ==
    QLess(cell, lower_bound) \/ QLess(upper_bound, cell)

\* deep_scanner.py:121-140 for one column
OutlierCheck(col) ==
    LET present == {v \in NumValues : col.counts[v] > 0}
        distinct == Cardinality(present) + (IF col.nulls > 0 THEN 1 ELSE 0)
        sorted == Ascend(col.counts, present)
        q1 == Quantile(sorted, 1)
        q3 == Quantile(sorted, 3)
        skipped == [ran |-> FALSE, lower_bound |-> Null, upper_bound |-> Null,
                    flagged |-> {}, issues |-> << >>]
    IN IF distinct < 5 THEN skipped
       ELSE IF q1 = Null \/ q3 = Null THEN skipped
       ELSE LET iqr == QAdd(q3, QNeg(q1))
                lower_bound == QAdd(q1, QNeg(OneAndAHalf(iqr)))
                upper_bound == QAdd(q3, OneAndAHalf(iqr))
                flagged == {i \in 1..Len(sorted) :
                               IsOutside(sorted[i], lower_bound, upper_bound)}
            IN [ran |-> TRUE, lower_bound |-> lower_bound,
                upper_bound |-> upper_bound,
                flagged |-> {sorted[i][1] : i \in flagged},
                issues |-> IF flagged # {}
                           THEN <<[type |-> "Statistical Outliers (IQR)",
                                   column |-> "c",
                                   count |-> Cardinality(flagged)]>>
                           ELSE << >>]

StatColumns ==
    {[nulls |-> nulls, counts |-> counts] :
        nulls \in {0, 1},
        counts \in {c \in [NumValues -> 0..MaxCopies] :
                       \A v \in NumValues \ Repeated : c[v] <= 1}}

InitStat ==
    /\ JanitorInit /\ SessionInit /\ ScanIdle /\ GenIdle /\ FixIdle /\ LlmIdle
    /\ voc_call = [pc |-> "idle"]
    /\ \E col \in StatColumns : stat_call = [pc |-> "called", col |-> col]

ScanStatistics ==
    /\ stat_call.pc = "called"
    /\ stat_call' = [pc |-> "returned", col |-> stat_call.col,
                     out |-> OutlierCheck(stat_call.col)]
    /\ UNCHANGED <<janitorVars, sessionVars, scanVars, genVars, fix_call, llmVars,
                   voc_call>>

NextStat == ScanStatistics

SpecStat == InitStat /\ [][NextStat]_vars

(***************************************************************************)
(* Properties of run_janitor, checked under SpecJanitor.                   *)
(***************************************************************************)
\* the reply's extracted code runs in the seeded namespace without raising
\* and binds clean_data there
Validates(raw) ==
    LET r == Exec(ExtractCode(raw), SeedEnv)
    IN ~r.raised /\ "clean_data" \in DOMAIN r.env

\* str(e) of the failed validation of a reply
ErrorTextOf(raw) ==
    LET r == Exec(ExtractCode(raw), SeedEnv)
    IN IF r.raised THEN r.err
       ELSE <<"Function clean_data was not found in generated code.">>

EveryReplyFailed ==
    /\ Len(raws) = invocations
    /\ \A i \in 1..Len(raws) : ~Validates(raws[i])

\* C1: when every reply of the model fails validation, run_janitor invokes
\* the model exactly 3 times and then returns a failure sentinel that holds
\* the error text of the 3rd failed attempt; there is never a 4th invocation
\* and the call never ends in an escaped exception.
C1_ThreeAttemptsThenSentinel ==
    /\ invocations <= 3
    /\ jpc \in {"loop", "returned"}
    /\ (jpc = "returned" /\ EveryReplyFailed) =>
          /\ invocations = 3
          /\ IsFailureSentinel(ret)
          /\ Contains(ret, <<"# Last Error: ">> \o ErrorTextOf(raws[3]))

C1_Witness ==
    /\ jpc = "returned"
    /\ EveryReplyFailed
    /\ invocations = 3
    /\ last_error # << >>

\* C3: run_janitor returns on the first attempt whose extracted code
\* validates, without a further invocation, and whatever it returns that is
\* no failure sentinel is the code of a reply of this call that ran without
\* raising in the namespace seeded with pl only and bound clean_data.
C3_ReturnsFirstValidatedCode ==
    /\ \A i \in 1..Len(raws) :
          Validates(raws[i]) =>
             /\ i = Len(raws)
             /\ invocations = i
             /\ jpc = "returned"
             /\ ret = ExtractCode(raws[i])
    /\ (jpc = "returned" /\ ~IsFailureSentinel(ret)) =>
          /\ raws # << >>
          /\ ret = ExtractCode(Last(raws))
          /\ Validates(Last(raws))

C3_Witness ==
    /\ jpc = "returned"
    /\ ~IsFailureSentinel(ret)
    /\ invocations = 2
    /\ ~Validates(raws[1])

InvokeHasFailed == invocations > Len(raws)

\* C4: when a model invocation raises, run_janitor returns the connection
\* failure sentinel on that very attempt, whichever attempt it is: no later
\* invocation is made and no exception escapes.
C4_InvokeFailureReturnsAtOnce ==
    InvokeHasFailed =>
       /\ jpc = "returned"
       /\ invocations = Len(raws) + 1
       /\ Head(ret) = "# Error: LLM connection failed. "
       /\ \E e \in InvokeErrors : Contains(ret, e)

C4_Witness ==
    /\ InvokeHasFailed
    /\ invocations = 3
    /\ jpc = "returned"

\* C5: the first attempt carries no feedback message, and every later attempt
\* sends a conversation to which the error text of the immediately preceding
\* failed attempt has been appended as a feedback message.
C5_FeedbackOnEveryRetry ==
    \A i \in 1..Len(sent) :
       IF i = 1 THEN Len(sent[i]) = 2
       ELSE /\ Len(sent[i]) = 3
            /\ sent[i][3].role = "human"
            /\ Contains(sent[i][3].content, ErrorTextOf(raws[i - 1]))

(***************************************************************************)
(* Properties of the session, checked under Spec.                          *)
(***************************************************************************)
FixOps == {"apply_fix", "vocab_fix", "stat_fix", "logic_fix"}

JanitorCallers == {"vocab_fix", "stat_fix", "logic_fix"}

\* checkpoint j of history h with its list and its set read from the heaps
EntryValue(h, L, S, j) ==
    [h[j] EXCEPT !.fast_issues = L[@], !.ignored_issues = S[@]]

HistoryValue(h, L, S) == [j \in 1..Len(h) |-> EntryValue(h, L, S, j)]

\* C2: when run_janitor returns a failure sentinel, the caller neither
\* executes the returned string nor looks up clean_data.
C2_SentinelIsNeverApplied ==
    (last.op \in JanitorCallers /\ last.sentinel)
        => (~last.executed /\ ~last.looked_up)

\* C6: a fix action that ends in its error branch leaves the table, the four
\* issue lists and the history as they were before it.
C6_FailedFixChangesNothing ==
    [][(last'.op \in FixOps /\ last'.branch = "error")
         => /\ df' = df
            /\ lists'[fast_issues'] = lists[fast_issues]
            /\ vocab_issues' = vocab_issues
            /\ stat_issues' = stat_issues
            /\ deep_issues' = deep_issues
            /\ HistoryValue(history', lists', sets')
                  = HistoryValue(history, lists, sets)]_vars

\* C7: when clean_data raises on the current table, the session table is
\* not replaced and no checkpoint is appended.
C7_RaisingCallKeepsTable ==
    [][last'.call_raised
         => /\ df' = df
            /\ HistoryValue(history', lists', sets')
                  = HistoryValue(history, lists, sets)]_vars

C7_Witness ==
    /\ last.op \in JanitorCallers
    /\ last.call_raised
    /\ last.branch = "error"
    /\ Height(df) >= 1

\* C8: for every valid index k, restore_checkpoint(k) sets the table, the
\* four issue lists and the ignored registry to the values checkpoint k
\* holds, and leaves exactly the entries 0..k in the history, unchanged.
C8_RestoreReproducesCheckpoint ==
    \A k \in 0..(Len(history) - 1) :
       LET r == restore_checkpoint(SessionState, k)
           e == EntryValue(history, lists, sets, k + 1)
       IN /\ r.df = e.df
          /\ r.lists[r.fast_issues] = e.fast_issues
          /\ r.vocab_issues = e.vocab_issues
          /\ r.stat_issues = e.stat_issues
          /\ r.deep_issues = e.deep_issues
          /\ r.sets[r.ignored_issues] = e.ignored_issues
          /\ HistoryValue(r.history, r.lists, r.sets)
                = SubSeq(HistoryValue(history, lists, sets), 1, k + 1)

\* a restore, in the audit, of a checkpoint that holds structural issues
C8_Witness ==
    /\ last.op = "revert"
    /\ last.index >= 1
    /\ app_stage = "AUDIT"
    /\ lists[fast_issues] # << >>
    /\ df = history[last.index + 1].df
    /\ Len(history) = last.index + 1

\* C9: after a successful fix the table stored in the last history entry is
\* the session's current table.
C9_LastCheckpointHoldsTable ==
    (last.op \in FixOps /\ last.branch = "ok")
        => (history # << >> /\ Last(history).df = df)

\* C10: no handler changes the table or the issue lists stored in a
\* checkpoint that stays in the history.
C10_CheckpointsNeverChange ==
    [][\A j \in 1..Min({Len(history), Len(history')}) :
          EntryValue(history', lists', sets', j)
             = EntryValue(history, lists, sets, j)]_vars

\* an ignore has removed an issue from the live list after its checkpoint
\* took the list
C10_Witness ==
    /\ last.op = "ignore"
    /\ history # << >>
    /\ Last(history).summary = <<"Ignored Issue">>
    /\ Len(lists[fast_issues]) < Len(lists[Last(history).fast_issues])

(***************************************************************************)
(* Properties of the semantic scan, checked under SpecScan.                *)
(***************************************************************************)
\* C11: whatever the model replies to any batch, the scan is never aborted:
\* it goes through the remaining batches, aggregates and stores a list.
C11_ScanNeverAborts == scan_pc # "aborted"

\* the (column, issue) pair a raw finding carries
PairOf(err) == <<Get(err, "column"), Get(err, "issue")>>

\* C12: the stored list has exactly one finding per distinct (column,
\* issue) pair of the raw findings, and its count is the number of raw
\* findings with exactly that pair.
C12_OneFindingPerPair ==
    scan_pc = "stored" =>
        LET pairs == {PairOf(scan_raw[i]) : i \in 1..Len(scan_raw)}
        IN /\ Len(scan_out) = Cardinality(pairs)
           /\ \A p \in pairs :
                \E g \in 1..Len(scan_out) :
                    /\ <<scan_out[g].column, scan_out[g].issue>> = p
                    /\ scan_out[g].count =
                         Cardinality({i \in 1..Len(scan_raw) :
                                        PairOf(scan_raw[i]) = p})

\* the positions of the raw findings counted in a finding, in order
RECURSIVE Ascending(_)
Ascending(S) ==
    IF S = {} THEN << >>
    ELSE LET least == CHOOSE x \in S : \A y \in S : x <= y
         IN <<least>> \o Ascending(S \ {least})

\* C13: rows holds the row indices reported by the first min(count, 5) raw
\* findings of the group, in the order they were encountered.
C13_RowsAreReportedIndices ==
    scan_pc = "stored" =>
        \A g \in 1..Len(scan_out) :
            LET members == Ascending({i \in 1..Len(scan_raw) :
                              GroupKey(Get(scan_raw[i], "column"),
                                       Get(scan_raw[i], "issue"))
                                  = scan_out[g].key})
                kept == Min({Len(members), RowsKept})
            IN scan_out[g].rows =
                 [k \in 1..kept |-> Get(scan_raw[members[k]], "row_index")]

(***************************************************************************)
(* Properties of get_batches, checked under SpecBatches.                   *)
(***************************************************************************)
RECURSIVE Concat(_)
Concat(slices) ==
    IF slices = << >> THEN << >> ELSE Head(slices) \o Concat(Tail(slices))

\* C14: for batch_size >= 1 the slices, put end to end, are the table; all
\* but the last have batch_size rows, the last has 1..batch_size rows, and
\* an empty table yields no slice.
C14_SlicesPartitionTable ==
    (gen_pc = "stopped" /\ gen_size >= 1) =>
        /\ Concat(gen_out) = gen_rows
        /\ \A i \in 1..Len(gen_out) - 1 : Len(gen_out[i]) = gen_size
        /\ gen_out # << >> => Len(Last(gen_out)) \in 1..gen_size
        /\ gen_rows = << >> => gen_out = << >>

C14_Witness ==
    /\ gen_pc = "stopped"
    /\ gen_size >= 2
    /\ Len(gen_out) >= 2
    /\ Len(Last(gen_out)) < gen_size

\* C15: for every table and every batch_size, the generator stops after
\* finitely many slices.
C15_GeneratorStops == <>(gen_pc = "stopped")

(***************************************************************************)
(* Properties of apply_fix, checked under SpecFixer.                       *)
(***************************************************************************)
Done(names) == fix_call.pc = "returned" /\ fix_call.fix_type \in names

NonNegativeOrNull(cell) == cell = Null \/ ~QLess(cell, Q(0))

\* C16: "Drop Rows (Negatives)" removes exactly the rows whose value is
\* non-null and below 0: the rows that are null or >= 0 stay, in their
\* order, and the null count of the column is unchanged.
C16_DropNegativesKeepsNulls ==
    Done({"Drop Rows (Negatives)"}) =>
        /\ fix_call.result.rows = SelectSeq(fix_call.frame.rows, NonNegativeOrNull)
        /\ NullCount(fix_call.result.rows) = NullCount(fix_call.frame.rows)
        /\ fix_call.result.dtype = fix_call.frame.dtype

C16_Witness ==
    /\ Done({"Drop Rows (Negatives)"})
    /\ NullCount(fix_call.frame.rows) > 0
    /\ NegCount(fix_call.frame.rows) > 0
    /\ Len(fix_call.result.rows) < Len(fix_call.frame.rows)

\* C17: a strategy name that is not catalogued gives the input table back
\* and never raises, whatever the column argument.
C17_UnknownStrategyIsNoOp ==
    (fix_call.pc # "called" /\ fix_call.fix_type \notin CataloguedNames) =>
        /\ fix_call.pc = "returned"
        /\ fix_call.result = fix_call.frame

\* the distinct rows in the order of their first occurrence
FirstOccurrences(rows) ==
    SelectRows(rows, {i \in 1..Len(rows) : \A j \in 1..(i - 1) : rows[j] # rows[i]})

\* C18: each duplicate fix returns exactly one row for each distinct row of
\* the input and no other row; "Keep First" returns them in the order of
\* their first occurrence.
C18_DuplicateFixes ==
    Done({"Remove Duplicates", "Keep First", "Keep Last"}) =>
        /\ Range(fix_call.result.rows) = Range(fix_call.frame.rows)
        /\ Len(fix_call.result.rows) = Cardinality(Range(fix_call.frame.rows))
        /\ fix_call.fix_type = "Keep First" =>
               fix_call.result.rows = FirstOccurrences(fix_call.frame.rows)

FillNames ==
    {"Fill with Median", "Fill with Mean", "Fill with Mode", "Fill with 0",
     "Fill with -1", "Fill with 'Unknown'", "Fill with 'Missing'",
     "Forward Fill", "Backward Fill", "Fill with Custom Value"}

\* C19: a fill strategy changes only cells that were null: the row count
\* and every non-null cell of the column are as before.
C19_FillChangesNullsOnly ==
    Done(FillNames) =>
        /\ Len(fix_call.result.rows) = Len(fix_call.frame.rows)
        /\ \A i \in 1..Len(fix_call.frame.rows) :
               fix_call.frame.rows[i] # Null =>
                   fix_call.result.rows[i] = fix_call.frame.rows[i]

(***************************************************************************)
(* Properties of the model switch, checked under SpecLlm.                  *)
(***************************************************************************)
\* C20: across any sequence of get_llm calls at most one of the two models
\* is resident in the serving backend, also when an unload request fails.
C20_OneModelResident == Cardinality(resident) <= 1

(***************************************************************************)
(* Code extraction in run_janitor, checked under SpecJanitor.              *)
(***************************************************************************)
IsFenceMark(piece) == piece \in {Fence, FencePy}

\* c is the content of the first fenced block of the reply, whatever the
\* block's language tag
IsFirstBlockOf(c, raw) ==
    \E i, j \in 1..Len(raw) :
        /\ i < j /\ IsFenceMark(raw[i]) /\ IsFenceMark(raw[j])
        /\ \A k \in 1..(j - 1) : k # i => ~IsFenceMark(raw[k])
        /\ c = Strip(SubSeq(raw, i + 1, j - 1))

\* c is the content of the first block opened by a python fence
IsFirstPythonBlockOf(c, raw) ==
    \E i, j \in 1..Len(raw) :
        /\ i < j /\ raw[i] = FencePy /\ IsFenceMark(raw[j])
        /\ \A k \in 1..(i - 1) : raw[k] # FencePy
        /\ \A k \in (i + 1)..(j - 1) : ~IsFenceMark(raw[k])
        /\ c = Strip(SubSeq(raw, i + 1, j - 1))

\* the whole reply with every fence marker taken out
Fallback(raw) ==
    Strip(SelectSeq([k \in 1..Len(raw) |->
                        IF raw[k] = FencePy THEN StmtPython ELSE raw[k]],
                    LAMBDA piece : piece # Fence))

\* the stripped stretches of a reply
Stretches(raw) ==
    {Strip(SubSeq(raw, i, j)) : i \in 1..(Len(raw) + 1), j \in 0..Len(raw)}

\* the code of a reply as claimed: its first fenced block, or the fallback
\* when it has no fenced block
FirstBlockOrFallback(raw) ==
    IF \E c \in Stretches(raw) : IsFirstBlockOf(c, raw)
    THEN {c \in Stretches(raw) : IsFirstBlockOf(c, raw)}
    ELSE {Fallback(raw)}

\* the code of a reply: its first python block, or the fallback when it has
\* no python block
PythonBlockOrFallback(raw) ==
    IF \E c \in Stretches(raw) : IsFirstPythonBlockOf(c, raw)
    THEN {c \in Stretches(raw) : IsFirstPythonBlockOf(c, raw)}
    ELSE {Fallback(raw)}

\* the call returned the code of its last reply
ReturnedCode == jpc = "returned" /\ ~IsFailureSentinel(ret) /\ raws # << >>

\* C21: the code validated is the content of the first fenced block of the
\* reply, and the fallback only when the reply has no fenced block: a call
\* returns on the first reply whose code, so extracted, validates, and
\* returns that code.
C21_FirstFencedBlockIsTheCode ==
    \A k \in 1..Len(raws) :
        \A c \in FirstBlockOrFallback(raws[k]) :
            /\ Validate(c).ok <=> (k = Len(raws) /\ ReturnedCode)
            /\ (k = Len(raws) /\ ReturnedCode) => ret = c

\* C21, amended: the code validated is the content of the first block
\* opened by a python fence, and the fallback whenever the reply has no such
\* block (also when it has a block with another or no language tag).
C21_FirstPythonBlockIsTheCode ==
    \A k \in 1..Len(raws) :
        /\ Cardinality(PythonBlockOrFallback(raws[k])) = 1
        /\ \A c \in PythonBlockOrFallback(raws[k]) :
              /\ Validate(c).ok <=> (k = Len(raws) /\ ReturnedCode)
              /\ (k = Len(raws) /\ ReturnedCode) => ret = c

\* a call returned the python block of a reply that opens with another block
C21_Witness ==
    /\ ReturnedCode
    /\ Head(Last(raws)) = Fence
    /\ \E i \in 1..Len(Last(raws)) : Last(raws)[i] = FencePy
    /\ ret = <<FnDropFirst>>

(***************************************************************************)
(* Properties of the vocabulary scanner, checked under SpecVocab.          *)
(***************************************************************************)
VocabRan == voc_call.pc = "returned" /\ voc_call.out.ran

Present(col) == {v \in Vocabulary : col.counts[v] > 0}

C23_GateCountsNonNullValues ==
    voc_call.pc = "returned" =>
        LET d == Cardinality(Present(voc_call.col)) + voc_call.col.others
        IN voc_call.out.ran <=> (2 < d /\ d < 500)

(***************************************************************************)
(* Properties of the statistical scanner, checked under SpecStat.          *)
(***************************************************************************)
StatDone == stat_call.pc = "returned"

Values(col) == {v \in NumValues : col.counts[v] > 0}

\* the quartiles of a column by position: the nearest ranks of (len-1)/4
\* and 3(len-1)/4 among its cells in ascending order
Quartile(col, num) ==
    LET cells == Ascend(col.counts, Values(col))
        twice == 2 * num * (Len(cells) - 1)            \* 8 * the exact rank
    IN cells[CHOOSE k \in 1..Len(cells) :
                 8 * (k - 1) - 4 <= twice /\ twice < 8 * (k - 1) + 4][1]

\* v is strictly outside [Q1 - 1.5 IQR, Q3 + 1.5 IQR], in halves
StrictlyOutside(v, col) ==
    LET q1 == Quartile(col, 1)
        q3 == Quartile(col, 3)
    IN 2 * v < 2 * q1 - 3 * (q3 - q1) \/ 2 * v > 2 * q3 + 3 * (q3 - q1)

OneToNineAndHundred ==
    [nulls |-> 0, counts |-> [v \in NumValues |-> IF v = 13 THEN 0 ELSE 1]]

ReportedCount(out) == IF out.issues = << >> THEN 0 ELSE out.issues[1].count

\* C24: a value of a numeric column is flagged iff it is strictly outside
\* [Q1 - 1.5 IQR, Q3 + 1.5 IQR]; for [1,...,9,100] the bounds are
\* [-4.5, 15.5] and the issue has count 1 with 100 the only flagged value.
C24_FlaggedIffStrictlyOutside ==
    StatDone =>
        /\ \A v \in Values(stat_call.col) :
              v \in stat_call.out.flagged <=> StrictlyOutside(v, stat_call.col)
        /\ stat_call.col = OneToNineAndHundred =>
              /\ stat_call.out.lower_bound = <<-9, 2>>
              /\ stat_call.out.upper_bound = <<31, 2>>
              /\ stat_call.out.flagged = {100}
              /\ ReportedCount(stat_call.out) = 1

\* C24, amended: the rule holds in a column with at least 5 distinct values,
\* a null counting as one; a column with fewer is skipped and nothing in it
\* is flagged.
C24_FlaggedIffStrictlyOutsideWhenChecked ==
    StatDone =>
        LET distinct == Cardinality(Values(stat_call.col))
                        + (IF stat_call.col.nulls > 0 THEN 1 ELSE 0)
        IN /\ distinct >= 5 /\ Values(stat_call.col) # {} =>
                 \A v \in Values(stat_call.col) :
                    v \in stat_call.out.flagged <=> StrictlyOutside(v, stat_call.col)
           /\ distinct < 5 => stat_call.out.flagged = {} /\ stat_call.out.issues = << >>
           /\ ReportedCount(stat_call.out) =
                 LET RECURSIVE Rows(_)
                     Rows(S) == IF S = {} THEN 0
                                ELSE LET v == Min(S)
                                     IN stat_call.col.counts[v] + Rows(S \ {v})
                 IN Rows(stat_call.out.flagged)
           /\ stat_call.col = OneToNineAndHundred =>
                 /\ stat_call.out.lower_bound = <<-9, 2>>
                 /\ stat_call.out.upper_bound = <<31, 2>>
                 /\ stat_call.out.flagged = {100}
                 /\ ReportedCount(stat_call.out) = 1

\* a checked column with a value exactly on a bound, which is not flagged,
\* and a value beyond it, which is
C24_Witness ==
    /\ StatDone
    /\ stat_call.out.ran
    /\ \E v \in Values(stat_call.col) :
          Q(v) = stat_call.out.upper_bound /\ v \notin stat_call.out.flagged
    /\ 100 \in stat_call.out.flagged

(***************************************************************************)
(* Properties of the upload page, checked under Spec.                      *)
(***************************************************************************)
UploadFailed == last.op = "upload" /\ last.branch = "error"

\* C25: when load_data gives its error text, the upload handler leaves the
\* table, the history and the stage as they were: no checkpoint is recorded
\* and the stage stays UPLOAD.
C25_FailedUploadChangesNothing ==
    [][UploadFailed' =>
          /\ df' = df
          /\ history' = history
          /\ app_stage' = app_stage
          /\ app_stage' = "UPLOAD"]_vars

\* a failed upload on the upload page of a session that holds a table and a
\* checkpoint (after a revert to the first checkpoint)
C25_Witness ==
    /\ UploadFailed
    /\ ~df.isNone
    /\ Len(history) = 1
    /\ app_stage = "UPLOAD"

(***************************************************************************)
(* Properties of the structural tab's menus, checked under Spec.           *)
(***************************************************************************)
\* the issues on the cards of the structural tab
Cards == IF AuditPage THEN lists[fast_issues] ELSE << >>

\* C26: every strategy on the menu of a reported structural issue is a name
\* apply_fix maps to a transformation; none reaches the final return of the
\* table unchanged.
C26_EveryOfferedStrategyIsMapped ==
    \A i \in 1..Len(Cards) :
       \A m \in 1..Len(FinalMenu(Cards[i])) :
          MapsToTransformation(FinalMenu(Cards[i])[m])

\* the rescans that Apply Fix can store for card i and menu entry m, when it
\* reaches its success branch
Rescans(i, m) ==
    LET s == SessionState
        issue == Cards[i]
        selected_fix == FinalMenu(issue)[m]
    IN UNION
         { { LET r == ApplyFixDone(s, issue, selected_fix, input, out.frame)
             IN r.lists[r.fast_issues] :
             out \in {o \in apply_fix(s.df, selected_fix, issue.column, input.val) :
                         ~o.raised} } :
           input \in {x \in (IF IsCustom(selected_fix) THEN CustomInputs
                             ELSE {NoInput}) : validate_input(x)} }

\* C27: after Apply Fix succeeds with a strategy from the menu of an issue
\* of type T on column c, the rescan of that action reports no issue of type
\* T on column c.
C27_FixedIssueIsGone ==
    \A i \in 1..Len(Cards) :
       \A m \in 1..Len(FinalMenu(Cards[i])) :
          \A rescan \in Rescans(i, m) :
             \A j \in 1..Len(rescan) :
                ~(rescan[j].type = Cards[i].type /\ rescan[j].column = Cards[i].column)

(***************************************************************************)
(* Properties of the ignored registry and the revert control, under Spec.  *)
(***************************************************************************)
\* C28: no issue of the current structural issue list has its
\* (column, type) signature in the ignored registry.
C28_NoListedIssueIsIgnored ==
    \A j \in 1..Len(lists[fast_issues]) :
       <<lists[fast_issues][j].column, lists[fast_issues][j].type>>
          \notin sets[ignored_issues]

\* C29: the revert control of history entry i restores what entry i-1
\* captured and leaves exactly the entries 0..i-1 when i > 0; for i = 0 it
\* restores entry 0 and leaves exactly entry 0; the history is never emptied.
C29_RevertRestoresThePreviousEntry ==
    \A i \in 0..(Len(history) - 1) :
       LET r == restore_checkpoint(SessionState, RevertTarget(i))
           kept == IF i > 0 THEN i ELSE 1          \* entries 0..i-1, or entry 0
           e == EntryValue(history, lists, sets, kept)
       IN /\ r.df = e.df
          /\ r.app_stage = e.stage_state
          /\ r.schema_locked = e.schema_locked
          /\ r.lists[r.fast_issues] = e.fast_issues
          /\ r.vocab_issues = e.vocab_issues
          /\ r.stat_issues = e.stat_issues
          /\ r.deep_issues = e.deep_issues
          /\ r.sets[r.ignored_issues] = e.ignored_issues
          /\ r.fast_count_start = e.fast_count_start
          /\ r.deep_count_start = e.deep_count_start
          /\ HistoryValue(r.history, r.lists, r.sets)
                = SubSeq(HistoryValue(history, lists, sets), 1, kept)
          /\ r.history # << >>

\* a revert has just undone the latest of at least three checkpoints, and
\* the session shows what the entry before it captured
C29_Witness ==
    /\ last.op = "revert"
    /\ last.index >= 2
    /\ Len(history) = last.index + 1
    /\ df = Last(history).df
    /\ app_stage = Last(history).stage_state
    /\ schema_locked = Last(history).schema_locked

(***************************************************************************)
(* Properties of the stage, the lock and the table, checked under Spec.    *)
(***************************************************************************)
LockedIffAudit == schema_locked <=> app_stage = "AUDIT"

TablePresentPastUpload == app_stage \in {"SCHEMA", "AUDIT"} => ~df.isNone

\* C30: schema_locked is true iff the stage is AUDIT, and the table is not
\* None whenever the stage is SCHEMA or AUDIT.
C30_LockAndTableFollowStage == LockedIffAudit /\ TablePresentPastUpload

====
